---- MODULE Spec2Model ----
(***************************************************************************)
(* Model of the Notion report generator: the block renderer, the tree      *)
(* walker that fetches and renders children, and generate_report, which    *)
(* assembles the primary document and the linked notes and tasks.          *)
(*                                                                         *)
(* Text is a sequence of string tokens.  A line break is always the token  *)
(* NL of its own, an empty Python string is the empty sequence, and        *)
(* f-string concatenation is \o.  The backquote cannot be written in a    *)
(* string here, so the inline-code marker and the code fence are the       *)
(* tokens BT and FENCE.                                                    *)
(***************************************************************************)
EXTENDS Naturals, Sequences, FiniteSets, TLC

(* ------------------------------ bounds -------------------------------- *)
MaxBlocks == 3
MaxKindBlocks == 2
MaxReportBlocks == 2
MaxItems == 2
MaxSpans == 2
MaxLines == 3
MaxProps == 3
MaxPages == 3
MaxPairBlocks == 1
MaxPairItems == 1
MaxPageSize == 2

NL == "\n"
BT == "<backquote>"
FENCE == "<fence>"

Tok(s) == IF s = "" THEN <<>> ELSE <<s>>

(* ----------------------- blocks_to_text.py ---------------------------- *)

\* The italic marker is applied before the bold one.
extract_span_italic_first(text_obj) ==
    IF text_obj.type # "text" THEN <<>>
    ELSE LET c0 == Tok(text_obj.content)
             c1 == IF text_obj.italic THEN <<"*">> \o c0 \o <<"*">> ELSE c0
             c2 == IF text_obj.bold THEN <<"**">> \o c1 \o <<"**">> ELSE c1
             c3 == IF text_obj.strikethrough THEN <<"~~">> \o c2 \o <<"~~">> ELSE c2
             c4 == IF text_obj.code THEN <<BT>> \o c3 \o <<BT>> ELSE c3
         IN  IF text_obj.href # ""
             THEN <<"[">> \o c4 \o <<"](", text_obj.href, ")">>
             ELSE c4

\* One span of a rich_text array: lines 12-29.
extract_span(text_obj) ==
    IF text_obj.type # "text" THEN <<>>
    ELSE LET c0 == Tok(text_obj.content)
             c1 == IF text_obj.bold THEN <<"**">> \o c0 \o <<"**">> ELSE c0
             c2 == IF text_obj.italic THEN <<"*">> \o c1 \o <<"*">> ELSE c1
             c3 == IF text_obj.strikethrough THEN <<"~~">> \o c2 \o <<"~~">> ELSE c2
             c4 == IF text_obj.code THEN <<BT>> \o c3 \o <<BT>> ELSE c3
         IN  IF text_obj.href # ""
             THEN <<"[">> \o c4 \o <<"](", text_obj.href, ")">>
             ELSE c4

RECURSIVE extract_rich_text_content(_)
extract_rich_text_content(rich_text) ==
    IF rich_text = <<>> THEN <<>>
    ELSE extract_span(Head(rich_text)) \o extract_rich_text_content(Tail(rich_text))

extract_text_content(block) == extract_rich_text_content(block.rich_text)

\* Line 52: the kinds whose children are fetched.
ChildKinds ==
    {"toggle", "callout", "quote", "bulleted_list_item", "numbered_list_item", "to_do"}

\* Children are fetched wherever the service reports some.
children_eligible_reported(block) == block.id # "" /\ block.has_children

children_eligible(block) == block.id # "" /\ block.type \in ChildKinds

Ok(t) == [ok |-> TRUE, text |-> t]
Raised == [ok |-> FALSE, text |-> <<>>]

\* The flag is ignored: a heading keeps its marker.
heading_fragment_kept(marker, text_content, flatten_headings, children_content) ==
    <<marker>> \o text_content \o <<NL>> \o children_content

heading_fragment(marker, text_content, flatten_headings, children_content) ==
    IF flatten_headings
    THEN <<"**">> \o text_content \o <<"**", NL, NL>> \o children_content
    ELSE <<marker>> \o text_content \o <<NL>> \o children_content

\* The closing bracket ends the fragment.
labelled_unterminated(label, text_content) == <<label>> \o text_content \o <<"]">>

labelled(label, text_content) == <<label>> \o text_content \o <<"]", NL>>

\* Line 90: block.get("callout", {}).get("icon", {}).get("emoji", "").
\* A null icon makes the second .get return None and the third one raise.
callout_icon(block) ==
    CASE block.icon = "emoji" -> Ok(<<"(i)">>)
      [] block.icon = "null" -> Raised
      [] OTHER -> Ok(<<>>)

\* An empty paragraph is dropped from the text.
paragraph_dropped(text_content, children_content) ==
    IF text_content # <<>> \/ children_content # <<>>
    THEN text_content \o <<NL>> \o children_content
    ELSE <<>>

\* Lines 72-73.
paragraph_fragment(text_content, children_content) ==
    IF text_content # <<>> \/ children_content # <<>>
    THEN text_content \o <<NL>> \o children_content
    ELSE <<NL>>

\* An unknown type is dropped from the text.
unsupported_dropped(block_type) == <<>>

\* Lines 132-133.
unsupported_fragment(block_type) ==
    <<"[Unsupported block: ">> \o Tok(block_type) \o <<"]", NL>>

\* Lines 60-133: the dispatch on the block type, after the children text
\* has been obtained.
block_fragment(block, flatten_headings, children_content) ==
    LET block_type == block.type
        text_content == extract_text_content(block)
    IN
    CASE block_type = "heading_1" ->
           Ok(heading_fragment("# ", text_content, flatten_headings, children_content))
      [] block_type = "heading_2" ->
           Ok(heading_fragment("## ", text_content, flatten_headings, children_content))
      [] block_type = "heading_3" ->
           Ok(heading_fragment("### ", text_content, flatten_headings, children_content))
      [] block_type = "paragraph" ->
           Ok(paragraph_fragment(text_content, children_content))
      [] block_type = "to_do" ->
           Ok(<<IF block.checked = "true" THEN "- [x]" ELSE "- [ ]", " ">>
              \o text_content \o <<NL>> \o children_content)
      [] block_type = "bulleted_list_item" ->
           Ok(<<"- ">> \o text_content \o <<NL>> \o children_content)
      [] block_type = "numbered_list_item" ->
           Ok(<<"1. ">> \o text_content \o <<NL>> \o children_content)
      [] block_type = "quote" ->
           Ok(<<"> ">> \o text_content \o <<NL>> \o children_content)
      [] block_type = "code" ->
           Ok(<<FENCE>> \o Tok(block.language) \o <<NL>> \o text_content
              \o <<NL, FENCE, NL>>)
      [] block_type = "divider" -> Ok(<<"---", NL>>)
      [] block_type = "callout" ->
           IF callout_icon(block).ok
           THEN Ok(callout_icon(block).text \o <<" ", "**">> \o text_content
                   \o <<"**", NL>> \o children_content \o <<NL>>)
           ELSE Raised
      [] block_type = "toggle" ->
           Ok(<<"<details>", NL, "<summary>">> \o text_content
              \o <<"</summary>", NL, NL>> \o children_content
              \o <<NL, "</details>", NL>>)
      [] block_type = "table" -> Ok(labelled("[Table: ", text_content))
      [] block_type = "image" ->
           Ok(<<"![">> \o extract_rich_text_content(block.caption) \o <<"](">>
              \o text_content \o <<")", NL>>)
      [] block_type = "file" -> Ok(labelled("[File: ", text_content))
      [] block_type = "video" -> Ok(labelled("[Video: ", text_content))
      [] block_type = "audio" -> Ok(labelled("[Audio: ", text_content))
      [] block_type = "embed" -> Ok(labelled("[Embed: ", text_content))
      [] block_type = "bookmark" -> Ok(labelled("[Bookmark: ", text_content))
      [] block_type = "link_preview" -> Ok(labelled("[Link: ", text_content))
      [] block_type = "equation" -> Ok(<<"$$">> \o text_content \o <<"$$", NL>>)
      [] block_type = "table_of_contents" -> Ok(<<"[Table of Contents]", NL>>)
      [] block_type = "breadcrumb" -> Ok(<<"[Breadcrumb]", NL>>)
      [] block_type = "column_list" -> Ok(<<"[Column List]", NL>>)
      [] block_type = "column" -> Ok(<<"[Column]", NL>>)
      [] block_type = "link_to_page" -> Ok(labelled("[Link to Page: ", text_content))
      [] block_type = "synced_block" -> Ok(<<"[Synced Block]", NL>>)
      [] block_type = "template" -> Ok(labelled("[Template: ", text_content))
      [] block_type = "child_page" -> Ok(labelled("[Child Page: ", text_content))
      [] block_type = "child_database" ->
           Ok(labelled("[Child Database: ", text_content))
      [] OTHER -> Ok(unsupported_fragment(block_type))

\* Lines 147-225: the renderer without children.
block_to_text(block, flatten_headings) ==
    LET block_type == block.type
        text_content == extract_text_content(block)
        heading(marker) ==
            IF flatten_headings THEN <<"**">> \o text_content \o <<"**", NL, NL>>
            ELSE <<marker>> \o text_content \o <<NL>>
    IN
    CASE block_type = "heading_1" -> Ok(heading("# "))
      [] block_type = "heading_2" -> Ok(heading("## "))
      [] block_type = "heading_3" -> Ok(heading("### "))
      [] block_type = "paragraph" ->
           IF text_content # <<>> THEN Ok(text_content \o <<NL>>) ELSE Ok(<<NL>>)
      [] block_type = "to_do" ->
           Ok(<<IF block.checked = "true" THEN "- [x]" ELSE "- [ ]", " ">>
              \o text_content \o <<NL>>)
      [] block_type = "bulleted_list_item" -> Ok(<<"- ">> \o text_content \o <<NL>>)
      [] block_type = "numbered_list_item" -> Ok(<<"1. ">> \o text_content \o <<NL>>)
      [] block_type = "quote" -> Ok(<<"> ">> \o text_content \o <<NL>>)
      [] block_type = "code" ->
           Ok(<<FENCE>> \o Tok(block.language) \o <<NL>> \o text_content
              \o <<NL, FENCE, NL>>)
      [] block_type = "divider" -> Ok(<<"---", NL>>)
      [] block_type = "callout" ->
           IF callout_icon(block).ok
           THEN Ok(callout_icon(block).text \o <<" ">> \o text_content \o <<NL>>)
           ELSE Raised
      [] block_type = "toggle" ->
           Ok(<<"<details>", NL, "<summary>">> \o text_content \o <<"</summary>", NL>>)
      [] block_type = "table" -> Ok(labelled("[Table: ", text_content))
      [] block_type = "image" ->
           Ok(<<"![">> \o extract_rich_text_content(block.caption) \o <<"](">>
              \o text_content \o <<")", NL>>)
      [] block_type = "file" -> Ok(labelled("[File: ", text_content))
      [] block_type = "video" -> Ok(labelled("[Video: ", text_content))
      [] block_type = "audio" -> Ok(labelled("[Audio: ", text_content))
      [] block_type = "embed" -> Ok(labelled("[Embed: ", text_content))
      [] block_type = "bookmark" -> Ok(labelled("[Bookmark: ", text_content))
      [] block_type = "link_preview" -> Ok(labelled("[Link: ", text_content))
      [] block_type = "equation" -> Ok(<<"$$">> \o text_content \o <<"$$", NL>>)
      [] block_type = "table_of_contents" -> Ok(<<"[Table of Contents]", NL>>)
      [] block_type = "breadcrumb" -> Ok(<<"[Breadcrumb]", NL>>)
      [] block_type = "column_list" -> Ok(<<"[Column List]", NL>>)
      [] block_type = "column" -> Ok(<<"[Column]", NL>>)
      [] block_type = "link_to_page" -> Ok(labelled("[Link to Page: ", text_content))
      [] block_type = "synced_block" -> Ok(<<"[Synced Block]", NL>>)
      [] block_type = "template" -> Ok(labelled("[Template: ", text_content))
      [] block_type = "child_page" -> Ok(labelled("[Child Page: ", text_content))
      [] block_type = "child_database" ->
           Ok(labelled("[Child Database: ", text_content))
      [] OTHER -> Ok(<<"[Unsupported block: ">> \o Tok(block_type) \o <<"]", NL>>)

\* Lines 228-236: the fragments of the list, joined in order; a block that
\* raises ends the call.
RECURSIVE blocks_to_text(_, _)
blocks_to_text(blocks, flatten_headings) ==
    IF blocks = <<>> THEN Ok(<<>>)
    ELSE LET text == block_to_text(Head(blocks), flatten_headings)
             rest == blocks_to_text(Tail(blocks), flatten_headings)
         IN  IF text.ok /\ rest.ok THEN Ok(text.text \o rest.text) ELSE Raised

(* ------------------- the remote store (notion.py) --------------------- *)

BlockNames == <<"b1", "b2", "b3", "b4", "b5", "b6">>

Span(c) ==
    [type |-> "text", content |-> c, bold |-> FALSE, italic |-> FALSE,
     strikethrough |-> FALSE, code |-> FALSE, href |-> ""]

\* What the service may return for one block: its type and the fields of
\* its payload the renderer reads.  txt: the block carries one span of text;
\* hasid: the record carries an "id".  The payload of an image has no
\* "rich_text": its text is its caption, and it carries the URL of its file
\* ("file" or "external").
Payload(type, txt, icon, has_children) ==
    [type |-> type, txt |-> txt, hasid |-> TRUE, icon |-> icon,
     checked |-> "absent", language |-> "", has_children |-> has_children]

KnownTypes ==
    {"heading_1", "heading_2", "heading_3", "paragraph", "to_do",
     "bulleted_list_item", "numbered_list_item", "quote", "code", "divider",
     "callout", "toggle", "table", "image", "file", "video", "audio", "embed",
     "bookmark", "link_preview", "equation", "table_of_contents", "breadcrumb",
     "column_list", "column", "link_to_page", "synced_block", "template",
     "child_page", "child_database"}

\* Types the dispatch does not know; "" is a record without a "type".
UnknownTypes == {"", "pdf", "unsupported"}

WalkPayloads ==
    {Payload("heading_2", TRUE, "absent", TRUE),
     Payload("paragraph", TRUE, "absent", TRUE),
     Payload("paragraph", FALSE, "absent", FALSE),
     Payload("toggle", TRUE, "absent", TRUE),
     Payload("quote", TRUE, "absent", TRUE),
     Payload("callout", TRUE, "null", TRUE),
     Payload("pdf", TRUE, "absent", TRUE),
     [Payload("bulleted_list_item", TRUE, "absent", TRUE) EXCEPT !.hasid = FALSE]}

KindPayloads ==
    {Payload(t, TRUE, "emoji", TRUE) : t \in KnownTypes \cup UnknownTypes}
    \cup {Payload("paragraph", FALSE, "absent", FALSE),
          Payload("callout", TRUE, "absent", TRUE),
          Payload("callout", TRUE, "external", TRUE),
          Payload("callout", TRUE, "null", TRUE),
          [Payload("to_do", TRUE, "absent", FALSE) EXCEPT !.checked = "true"],
          [Payload("to_do", TRUE, "absent", FALSE) EXCEPT !.checked = "false"],
          [Payload("code", TRUE, "absent", FALSE) EXCEPT !.language = "python"]}

ReportPayloads ==
    {Payload("heading_1", TRUE, "absent", FALSE),
     Payload("toggle", TRUE, "absent", TRUE),
     Payload("callout", TRUE, "null", FALSE)}

\* A page of headings and paragraphs, and a toggle.
PlainPayloads ==
    {Payload("heading_1", TRUE, "absent", FALSE),
     Payload("paragraph", TRUE, "absent", FALSE),
     Payload("toggle", TRUE, "absent", TRUE)}

\* Trees of any shape: a container, a container without an id, a heading
\* for which the service reports children, and a callout that raises.
DeepPayloads ==
    {Payload("toggle", TRUE, "absent", TRUE),
     Payload("heading_2", TRUE, "absent", TRUE),
     Payload("callout", TRUE, "null", TRUE),
     [Payload("bulleted_list_item", TRUE, "absent", TRUE) EXCEPT !.hasid = FALSE]}

\* A page of toggles: every block has its children fetched.
PairPayloads == {Payload("toggle", TRUE, "absent", TRUE)}

PayloadsOf(m) ==
    CASE m = "kinds" -> KindPayloads
      [] m = "pair" -> PairPayloads
      [] m = "deep" -> DeepPayloads
      [] m = "report" -> ReportPayloads
      [] m = "plain" -> PlainPayloads
      [] OTHER -> WalkPayloads
BudgetOf(m) ==
    CASE m \in {"kinds", "twin"} -> MaxKindBlocks
      [] m \in {"report", "plain"} -> MaxReportBlocks
      [] m = "pair" -> MaxPairBlocks
      [] OTHER -> MaxBlocks

MkBlock(p, key) ==
    [key |-> key, id |-> IF p.hasid THEN key ELSE "", type |-> p.type,
     rich_text |-> IF p.txt /\ p.type # "image" THEN <<Span(key)>> ELSE <<>>,
     icon |-> p.icon, checked |-> p.checked, language |-> p.language,
     caption |-> IF p.txt /\ p.type = "image" THEN <<Span(key)>> ELSE <<>>,
     url |-> IF p.type = "image" THEN "https://img" ELSE "",
     has_children |-> p.has_children]

\* The lists of at most n blocks the service may return.
BlockLists(n, payloads) == UNION {[1..k -> payloads] : k \in 0..n}

NewNodes(ps, base) ==
    [j \in 1..Len(ps) |->
        [block |-> MkBlock(ps[j], BlockNames[base + j]), kids |-> <<>>,
         fetch |-> "none", dropped |-> FALSE]]

(* ------------------------------ state --------------------------------- *)

VARIABLES
    mode,       \* the inputs drawn: "walk", "kinds", "report", "plain", "calls"
    pc,         \* position of the request
    stack,      \* active calls of blocks_to_text_with_children, innermost last
    walk,       \* arguments of the outermost call: its block list and flag
    out,        \* what the outermost call returned or that it raised
    inflight,   \* remote calls issued and not yet answered
    log,        \* every remote call issued so far, in order
    tree,       \* the blocks the service has returned so far and their children
    last,       \* the last dispatch: block, flag, children text, result
    rep,        \* the locals of generate_report
    response,   \* what generate_report returned, or that it raised
    call,       \* the last call of a function without remote calls
    pager,      \* the locals of get_block_children and the pages of the service
    parked,     \* an earlier run of the walker, or a suspended second request
    world       \* what requests share: the stored files, the URL property, the clock

vars == <<mode, pc, stack, walk, out, inflight, log, tree, last, rep, response, call,
          pager, parked, world>>

NoCall == [fn |-> "", arg |-> <<>>, ret |-> <<>>]

\* get_block_children is not running.
NoPager ==
    [st |-> "idle", block_id |-> "", all_blocks |-> <<>>, start_cursor |-> "",
     pages |-> <<>>]

\* No earlier run and no second request.
NoParked == [pc |-> "none"]

\* What a run or a request owns.
Own == [pc |-> pc, stack |-> stack, walk |-> walk, out |-> out, inflight |-> inflight,
        log |-> log, tree |-> tree, last |-> last, rep |-> rep, response |-> response]

NoOut == [ok |-> FALSE, text |-> <<"<none>">>]
NoLast == [n |-> 0, flatten |-> FALSE, cc |-> <<>>, res |-> NoOut]

\* Nothing stored, no URL property written, the clock in its first minute.
NoWorld == [files |-> <<>>, url_prop |-> <<>>, minute |-> 1]

\* The result list outlives the call: a later call starts with the text
\* of the earlier one.
Frame_leftover(blocks, flatten_headings) ==
    [blocks |-> blocks, i |-> 1,
     result |-> IF parked.pc = "walked" /\ parked.out.ok THEN parked.out.text ELSE <<>>,
     flatten |-> flatten_headings, st |-> "loop", cc |-> <<>>]

Frame(blocks, flatten_headings) ==
    [blocks |-> blocks, i |-> 1, result |-> <<>>, flatten |-> flatten_headings,
     st |-> "loop", cc |-> <<>>]

Top == stack[Len(stack)]
CurN == Top.blocks[Top.i]
Cur == tree[CurN].block
InLoop == pc = "walk" /\ stack # <<>> /\ Top.st = "loop"
AtBlock == InLoop /\ Top.i <= Len(Top.blocks)
SetTop(f) == [stack EXCEPT ![Len(stack)] = f]
Pop == SubSeq(stack, 1, Len(stack) - 1)
Range(n, k) == [j \in 1..k |-> n + j]

ChildrenReq(block) == [op |-> "children", id |-> block.id]

(* --------------- blocks_to_text.py: the tree walker ------------------- *)

\* The recursive call is made with the default flag.
child_flatten_default(flatten_headings) == FALSE

\* Line 56: the flag handed to the recursive call.
child_flatten(flatten_headings) == flatten_headings

\* Fragments are put in front of the earlier ones.
prepend_fragment(result, text) == text \o result

\* Lines 142-144: result.append(text) ... "".join(result).
append_fragment(result, text) == result \o text

\* The children of all remaining eligible siblings are requested at once.
FetchChildren_fanout ==
    /\ AtBlock
    /\ children_eligible(Cur)
    /\ inflight' = inflight \cup
          {ChildrenReq(tree[Top.blocks[j]].block) :
             j \in {x \in Top.i..Len(Top.blocks) : children_eligible(tree[Top.blocks[x]].block)}}
    /\ log' = Append(log, ChildrenReq(Cur))
    /\ stack' = SetTop([Top EXCEPT !.st = "await"])
    /\ UNCHANGED <<rep, response, mode, pc, walk, out, tree, last>>
    /\ UNCHANGED <<call, pager, parked, world>>

\* Lines 52-54: an eligible block with an id has its children requested;
\* the call is suspended until the service answers.
FetchChildren ==
    /\ AtBlock
    /\ children_eligible(Cur)
    /\ inflight' = inflight \cup {ChildrenReq(Cur)}
    /\ log' = Append(log, ChildrenReq(Cur))
    /\ stack' = SetTop([Top EXCEPT !.st = "await"])
    /\ UNCHANGED <<rep, response, mode, pc, walk, out, tree, last>>
    /\ UNCHANGED <<call, pager, parked, world>>

\* Lines 57-58: the request raised; the warning is printed and
\* children_content stays "".  The service answers a block id it has
\* answered before as it did then.
ChildrenFailed ==
    /\ pc = "walk" /\ stack # <<>> /\ Top.st = "await"
    /\ tree[CurN].fetch # "ok"
    /\ inflight' = inflight \ {ChildrenReq(Cur)}
    /\ tree' = [tree EXCEPT ![CurN].fetch = "failed"]
    /\ stack' = SetTop([Top EXCEPT !.st = "render", !.cc = <<>>])
    /\ UNCHANGED <<rep, response, mode, pc, walk, out, log, last>>
    /\ UNCHANGED <<call, pager, parked, world>>

\* Lines 54-56: the service answered with the children; a non-empty list is
\* rendered by a recursive call, an empty one leaves children_content "".
ChildrenReturned ==
    /\ pc = "walk" /\ stack # <<>> /\ Top.st = "await"
    /\ tree[CurN].fetch # "failed"
    /\ \E ps \in IF tree[CurN].fetch = "ok" THEN {<<>>}
                 ELSE BlockLists(BudgetOf(mode) - Len(tree), PayloadsOf(mode)) :
         LET children_blocks == IF tree[CurN].fetch = "ok" THEN tree[CurN].kids
                                ELSE Range(Len(tree), Len(ps))
         IN  /\ tree' = [tree EXCEPT ![CurN].fetch = "ok",
                                     ![CurN].kids = children_blocks]
                        \o NewNodes(ps, Len(tree))
             /\ IF children_blocks # <<>>
                THEN stack' = Append(SetTop([Top EXCEPT !.st = "child"]),
                                     Frame(children_blocks, child_flatten(Top.flatten)))
                ELSE stack' = SetTop([Top EXCEPT !.st = "render", !.cc = <<>>])
    /\ inflight' = inflight \ {ChildrenReq(Cur)}
    /\ UNCHANGED <<rep, response, mode, pc, walk, out, log, last>>
    /\ UNCHANGED <<call, pager, parked, world>>

\* An exception leaves the innermost blocks_to_text_with_children: the
\* enclosing block_to_text_with_children catches it at line 57 and goes on
\* with children_content "", and without an enclosing call it reaches the
\* caller of the outermost one.
Unwind ==
    IF Len(stack) >= 2
    THEN /\ stack' = [Pop EXCEPT ![Len(stack) - 1].st = "render",
                                 ![Len(stack) - 1].cc = <<>>]
         /\ tree' = [tree EXCEPT ![stack[Len(stack) - 1].blocks[stack[Len(stack) - 1].i]].dropped = TRUE]
         /\ UNCHANGED <<pc, out>>
    ELSE /\ stack' = <<>>
         /\ pc' = "walked"
         /\ out' = Raised
         /\ UNCHANGED tree

\* Lines 60-133 and 141-142: the dispatch on the block type and the append
\* of its fragment.  A block that is not eligible comes here directly.
Render ==
    /\ pc = "walk" /\ stack # <<>>
    /\ \/ Top.st = "render"
       \/ AtBlock /\ ~children_eligible(Cur)
    /\ LET children_content == IF Top.st = "render" THEN Top.cc ELSE <<>>
           res == block_fragment(Cur, Top.flatten, children_content)
       IN  /\ last' = [n |-> CurN, flatten |-> Top.flatten,
                       cc |-> children_content, res |-> res]
           /\ IF res.ok
              THEN /\ stack' = SetTop([Top EXCEPT
                                         !.result = append_fragment(Top.result, res.text),
                                         !.i = Top.i + 1, !.st = "loop", !.cc = <<>>])
                   /\ UNCHANGED <<pc, out, tree>>
              ELSE Unwind
    /\ UNCHANGED <<rep, response, mode, walk, inflight, log>>
    /\ UNCHANGED <<call, pager, parked, world>>

\* Line 144: the loop is over and the joined text is returned, to the
\* block that asked for its children or to the outermost caller.
ReturnList ==
    /\ InLoop /\ Top.i > Len(Top.blocks)
    /\ IF Len(stack) >= 2
       THEN /\ stack' = [Pop EXCEPT ![Len(stack) - 1].st = "render",
                                    ![Len(stack) - 1].cc = Top.result]
            /\ UNCHANGED <<pc, out>>
       ELSE /\ stack' = <<>>
            /\ pc' = "walked"
            /\ out' = Ok(Top.result)
    /\ UNCHANGED <<rep, response, mode, walk, inflight, log, tree, last>>
    /\ UNCHANGED <<call, pager, parked, world>>

Walker == FetchChildren \/ ChildrenFailed \/ ChildrenReturned \/ Render \/ ReturnList

(* ---------------- pages and their properties (notion.py) -------------- *)

\* A property of a page record.  Its value is a sequence of strings: the
\* spans of a title, the ids of a relation, the names of a multi_select or
\* people list; for status, select, date and formula <<>> is a null or
\* empty object and <<v>> an object whose name (start, string) is v.
Prop(name, type, value) == [name |-> name, type |-> type, value |-> value]
Absent == Prop("", "absent", <<>>)

HasProp(properties, name) == \E j \in 1..Len(properties) : properties[j].name = name

\* properties.get(name, {})
GetProp(properties, name) ==
    IF HasProp(properties, name)
    THEN properties[CHOOSE j \in 1..Len(properties) : properties[j].name = name]
    ELSE Absent

RECURSIVE JoinWith(_, _)
JoinWith(sep, texts) ==
    IF texts = <<>> THEN <<>>
    ELSE IF Len(texts) = 1 THEN texts[1]
    ELSE texts[1] \o sep \o JoinWith(sep, Tail(texts))

Toks(strings) == JoinWith(<<>>, [j \in 1..Len(strings) |-> Tok(strings[j])])

\* blocks_to_text.py lines 239-259.
RECURSIVE first_title(_, _)
first_title(props, fallback) ==
    IF props = <<>> THEN fallback
    ELSE IF Head(props).type = "title" /\ Head(props).value # <<>>
         THEN Toks(Head(props).value)
         ELSE first_title(Tail(props), fallback)

get_page_title(page) ==
    LET properties == page.properties
        named == [j \in 1..3 |-> GetProp(properties, <<"Name", "Title", "Page">>[j])]
    IN  first_title(named, first_title(properties, <<"Untitled">>))

\* notion.py lines 52-58.
extract_relation_ids(page, relation_name) ==
    LET relation_prop == GetProp(page.properties, relation_name)
    IN  IF relation_prop.type # "relation" THEN <<>> ELSE relation_prop.value

(* --------------------------- main.py ---------------------------------- *)

Named(v) == v # <<>> /\ v[1] # ""
Entry(key, present, text) == IF present THEN [k \in {key} |-> text] ELSE <<>>
CommaNames(names) == JoinWith(<<", ">>, [j \in 1..Len(names) |-> Tok(names[j])])

\* "Kanban" is examined before "Status".
status_value_kanban_first(properties) ==
    LET st == GetProp(properties, "Status")
        kb == GetProp(properties, "Kanban")
    IN  IF kb.type = "status" /\ Named(kb.value) THEN Tok(kb.value[1])
        ELSE IF st.type = "status" /\ Named(st.value) THEN Tok(st.value[1])
        ELSE <<>>

\* Lines 25-32: the name of the first of "Status", "Kanban" that is
\* status-typed and has a name; <<>> where the loop assigns nothing.
status_value(properties) ==
    LET st == GetProp(properties, "Status")
        kb == GetProp(properties, "Kanban")
    IN  IF st.type = "status" /\ Named(st.value) THEN Tok(st.value[1])
        ELSE IF kb.type = "status" /\ Named(kb.value) THEN Tok(kb.value[1])
        ELSE <<>>

\* Lines 20-76.  The mapping holds a key only where the code assigns it.
extract_task_properties(task_page) ==
    LET properties == task_page.properties
        pr == GetProp(properties, "Priority")
        due == GetProp(properties, "Do date")
        dd == GetProp(properties, "Date done")
        info == GetProp(properties, "Info")
        tags == GetProp(properties, "Tags")
        asg == GetProp(properties, "Assignee")
    IN  Entry("status", status_value(properties) # <<>>, status_value(properties))
        @@ Entry("priority", pr.type = "select" /\ pr.value # <<>>,
                 IF pr.value # <<>> THEN Tok(pr.value[1]) ELSE <<>>)
        @@ Entry("due_date", due.type = "date" /\ Named(due.value), Toks(due.value))
        @@ Entry("date_done", dd.type = "date" /\ Named(dd.value), Toks(dd.value))
        @@ Entry("info", info.type = "formula" /\ Named(info.value), Toks(info.value))
        @@ Entry("tags", tags.type = "multi_select" /\ tags.value # <<>>,
                 CommaNames(tags.value))
        @@ Entry("assignee", asg.type = "people" /\ asg.value # <<>>,
                 CommaNames(asg.value))

\* task_props.get(key): a missing key and an empty string are both falsy.
Truthy(task_props, key) == key \in DOMAIN task_props /\ task_props[key] # <<>>

\* The label is written for an absent property too.
Part_unguarded(task_props, key, label, close) ==
    IF key \in DOMAIN task_props THEN <<<<label>> \o task_props[key] \o close>>
    ELSE <<<<label>> \o close>>

\* Lines 207-220, one of the seven tests.
Part(task_props, key, label, close) ==
    IF Truthy(task_props, key) THEN <<<<label>> \o task_props[key] \o close>> ELSE <<>>

\* Lines 206-223.
properties_str(task_props) ==
    LET prop_parts ==
            Part(task_props, "status", "**Status: ", <<"**">>)
            \o Part(task_props, "priority", "Priority: ", <<>>)
            \o Part(task_props, "due_date", "Due: ", <<>>)
            \o Part(task_props, "date_done", "Done: ", <<>>)
            \o Part(task_props, "assignee", "Assignee: ", <<>>)
            \o Part(task_props, "tags", "Tags: ", <<>>)
            \o Part(task_props, "info", "Info: ", <<>>)
    IN  IF prop_parts # <<>> THEN <<" - ">> \o JoinWith(<<", ">>, prop_parts) ELSE <<>>

\* A task has no summary either.
item_props_str_none(grp, page) == <<>>

\* Lines 201-223 for a task; a note has no summary (lines 188-192).
item_props_str(grp, page) ==
    IF grp = "tasks" THEN properties_str(extract_task_properties(page)) ELSE <<>>

\* Lines 192 and 229.
item_section(title, props_str, content) ==
    <<"### ">> \o title \o props_str \o <<NL, NL>> \o content \o <<NL>>

\* Lines 194 and 231; "<error>" is str(e).
error_section(grp) ==
    <<"### ", IF grp = "notes" THEN "[Error loading note: " ELSE "[Error loading task: ",
      "<error>", "]", NL, NL>>

\* Lines 237-262.
main_content(project_title, now, project_content, notes_content, tasks_content) ==
    <<"# ">> \o project_title \o <<NL, NL, "**Generated:** ", now, NL, NL,
      "---", NL, NL, "## ", "Project Overview", NL, NL>>
    \o project_content
    \o <<NL, NL, "---", NL, NL, "## ", "Notes", NL, NL>>
    \o (IF notes_content # <<>> THEN JoinWith(<<NL>>, notes_content)
        ELSE <<"*No notes found.*">>)
    \o <<NL, NL, "---", NL, NL, "## ", "Tasks", NL, NL>>
    \o (IF tasks_content # <<>> THEN JoinWith(<<NL>>, tasks_content)
        ELSE <<"*No tasks found.*">>)
    \o <<NL, NL, "---", NL, NL, "*Report generated by Notion Report Generator*", NL>>

\* Lines 79-99.  A text is a sequence of tokens, each either one character
\* or a word: a marker token ("#" characters and one space) or a run of
\* characters that starts with neither "#" nor white space and holds no
\* line break.
Markers == {"# ", "## ", "### "}
Level(marker) == CASE marker = "# " -> 1 [] marker = "## " -> 2 [] OTHER -> 3
White == {NL, " "}
MaxHashes == 6

RECURSIVE SkipWhite(_, _)
SkipWhite(c, i) == IF i <= Len(c) /\ c[i] \in White THEN SkipWhite(c, i + 1) ELSE i

RECURSIVE LineEnd(_, _)
LineEnd(c, i) == IF i <= Len(c) /\ c[i] # NL THEN LineEnd(c, i + 1) ELSE i

RECURSIVE SkipHashes(_, _)
SkipHashes(c, i) == IF i <= Len(c) /\ c[i] = "#" THEN SkipHashes(c, i + 1) ELSE i

\* Line 85, ^(#{1,6})\s+ at the line start i: the level, and the first
\* index at which the title may start, 0 where the line does not match.
marker_at(c, i) ==
    IF c[i] \in Markers THEN [level |-> Level(c[i]), from |-> i + 1]
    ELSE LET k == SkipHashes(c, i)
         IN  IF k - i >= 1 /\ k - i <= MaxHashes /\ k <= Len(c) /\ c[k] \in White
             THEN [level |-> k - i, from |-> k + 1]
             ELSE [level |-> 0, from |-> 0]

\* Line 85, \s+(.+)$ from index from on: \s+ takes all the white space it
\* finds, line breaks included, and gives back only what (.+) needs; the
\* result is the index at which the title starts, 0 without a match.
title_start(c, from) ==
    LET j == SkipWhite(c, from)
        back == {k \in from..(j - 1) : c[k] # NL}
    IN  IF j <= Len(c) THEN j
        ELSE IF back # {} THEN CHOOSE k \in back : \A x \in back : x <= k
        ELSE 0

\* Line 86: re.findall from the line start i on.
RECURSIVE find_headings(_, _)
find_headings(c, i) ==
    IF i > Len(c) THEN <<>>
    ELSE LET m == marker_at(c, i)
             j == IF m.level = 0 THEN 0 ELSE title_start(c, m.from)
             e == LineEnd(c, j)
         IN  IF j # 0
             THEN <<[level |-> m.level, title |-> SubSeq(c, j, e - 1)]>>
                  \o find_headings(c, e + 1)
             ELSE find_headings(c, LineEnd(c, i) + 1)

\* Line 90 on one token: title.lower() and the deletion of every character
\* that is neither a word character, white space nor a hyphen; white space
\* and hyphens are written "-" here, which line 91 makes of them.
slug_token(t) ==
    CASE t \in {" ", NL, "-"} -> <<"-">>
      [] t \in {"!", "#", "*", "[", "]", "(", ")", ":", "<", ">", "**"} -> <<>>
      [] t = "A" -> <<"a">>
      [] t = "B" -> <<"b">>
      [] t = "C" -> <<"c">>
      [] t = "P" -> <<"p">>
      [] t = "Q" -> <<"q">>
      [] t = "Project Overview" -> <<"project", "-", "overview">>
      [] t = "Notes" -> <<"notes">>
      [] t = "Tasks" -> <<"tasks">>
      [] t = " - " -> <<"-">>
      [] t = "**Status: " -> <<"status", "-">>
      [] t = "Done" -> <<"done">>
      [] t = "[Error loading note: " -> <<"error", "-", "loading", "-", "note", "-">>
      [] t = "[Error loading task: " -> <<"error", "-", "loading", "-", "task", "-">>
      [] t = "<error>" -> <<"error">>
      [] OTHER -> <<t>>

\* Line 91: runs of hyphens and white space become one hyphen, and the
\* hyphens at both ends are stripped.
RECURSIVE collapse(_)
collapse(a) ==
    IF Len(a) < 2 THEN a
    ELSE IF a[1] = "-" /\ a[2] = "-" THEN collapse(Tail(a))
    ELSE <<a[1]>> \o collapse(Tail(a))

strip_hyphens(a) ==
    LET lo == IF a # <<>> /\ a[1] = "-" THEN 2 ELSE 1
        hi == IF a # <<>> /\ a[Len(a)] = "-" THEN Len(a) - 1 ELSE Len(a)
    IN  SubSeq(a, lo, hi)

anchor(title) ==
    strip_hyphens(collapse(JoinWith(<<>>, [j \in 1..Len(title) |-> slug_token(title[j])])))

\* Lines 94-97.
toc_entry(h) ==
    [j \in 1..(h.level - 1) |-> "  "] \o <<"- [">> \o h.title \o <<"](#">>
    \o anchor(h.title) \o <<")">>

generate_table_of_contents(content) ==
    LET headings == find_headings(content, 1)
        toc_lines == <<(<<"## ", "Table of Contents", NL>>)>>
                     \o [j \in 1..Len(headings) |-> toc_entry(headings[j])]
    IN  JoinWith(<<NL>>, toc_lines) \o <<NL, NL, "---", NL, NL>>

\* datetime.now().strftime("%Y-%m-%d %H:%M:%S"): two readings of the clock.
Clock == <<"2025-01-01 12:00:00", "2025-01-01 12:01:00">>

\* len() of one token of a title section; the tokens of a title are single
\* characters.
CharLen(t) ==
    CASE t = "# " -> 2
      [] t = "**Generated:** " -> 15
      [] t \in {Clock[1], Clock[2]} -> 19
      [] OTHER -> 1

RECURSIVE TextLen(_)
TextLen(text) == IF text = <<>> THEN 0 ELSE CharLen(Head(text)) + TextLen(Tail(text))

\* text[n:]; "<cut>" stands for the rest of a token the slice cuts through.
RECURSIVE DropChars(_, _)
DropChars(text, n) ==
    IF n = 0 \/ text = <<>> THEN text
    ELSE IF CharLen(Head(text)) <= n
         THEN DropChars(Tail(text), n - CharLen(Head(text)))
         ELSE <<"<cut>">> \o Tail(text)

\* The title section ends with one line break.
title_section_one_break(project_title, now) ==
    <<"# ">> \o project_title \o <<NL, NL, "**Generated:** ", now, NL>>

\* Line 268.
title_section(project_title, now) ==
    <<"# ">> \o project_title \o <<NL, NL, "**Generated:** ", now, NL, NL>>

\* Lines 237-271: the text is built, the table of contents is made of it,
\* and the title section is cut off the text by its length.
report_content(project_title, now1, now2, project_content, notes_content, tasks_content) ==
    LET main == main_content(project_title, now1, project_content, notes_content,
                             tasks_content)
        head == title_section(project_title, now2)
        rest_of_content == DropChars(main, TextLen(head))
    IN  head \o generate_table_of_contents(main) \o rest_of_content

(* ------------------- main.py: generate_report ------------------------- *)

\* The page_id argument of generate_report.
PageIds == <<"P", "Q">>
PrimaryId == rep.page_id
NoteNames == <<"n1", "n2", "n3">>
TaskNames == <<"t1", "t2", "t3">>
\* datetime.now(), formatted to the second (lines 239 and 268) and to the
\* minute (line 234).
Now == Clock[world.minute]
Minutes == <<"20250101_1200", "20250101_1201">>

\* Line 274: slugify(project_title): lower case, hyphens between words.
slugify(text) == anchor(text)

\* Line 275.  page_id[:4] is the whole id: the ids here have at most four
\* characters.
blob_path(page_id, project_slug, timestamp) ==
    <<"reports/", page_id, "/project-">> \o project_slug \o <<"-", timestamp, ".md">>

\* storage.py lines 13-31 and 78-81: the text is written to the path under
\* the storage directory, replacing what the path held, and the URL of the
\* file is returned.
upload_url(path) == <<"file://", "./local_reports/">> \o path
upload_text_local(files, path, text) == Append(files, [path |-> path, text |-> text])

TitleProp(id) == Prop("Name", "title", <<id>>)

ItemsOf(m) == IF m = "pair" THEN MaxPairItems ELSE MaxItems

\* The project records the service may return.
ProjectPages ==
    {[id |-> PrimaryId,
      properties |-> <<TitleProp(PrimaryId),
                       Prop("Notes", "relation", SubSeq(NoteNames, 1, n)),
                       Prop("Tasks", "relation", SubSeq(TaskNames, 1, t))>>]
        : <<n, t>> \in {x \in (0..ItemsOf(mode)) \X (0..ItemsOf(mode)) :
                           x[1] + x[2] <= ItemsOf(mode)}}

\* The records the service may return for a linked note or task.
ItemPages(id) ==
    {[id |-> id, properties |-> <<TitleProp(id)>>],
     [id |-> id, properties |-> <<TitleProp(id), Prop("Status", "status", <<"Done">>)>>]}

NoRep ==
    [page_id |-> PageIds[1],
     phase |-> "none", k |-> 0, project_title |-> <<>>, notes_ids |-> <<>>,
     tasks_ids |-> <<>>, project_content |-> <<>>, notes_content |-> <<>>,
     tasks_content |-> <<>>, item_page |-> [id |-> "", properties |-> <<>>],
     item_title |-> <<>>, item_props |-> <<>>,
     report_content |-> <<>>, timestamp |-> "", public_url |-> <<>>]

Response(status, detail, url, title, n, t) ==
    [status |-> status, detail |-> detail, url |-> url, project_title |-> title,
     notes_count |-> n, tasks_count |-> t]
NoResponse == Response("none", "", <<>>, <<>>, 0, 0)
\* Line 298: HTTPException(status_code=400, detail=... str(e)); e names the
\* call that raised.
HttpError(e) == Response("raised", e, <<>>, <<>>, 0, 0)

PageReq(id) == [op |-> "page", id |-> id]
KidsReq(id) == [op |-> "children", id |-> id]
UpdateReq(id) == [op |-> "update", id |-> id]

\* The tasks are gone through first.
Ids_tasks_first == IF rep.phase = "notes" THEN rep.tasks_ids ELSE rep.notes_ids

Ids == IF rep.phase = "notes" THEN rep.notes_ids ELSE rep.tasks_ids
Contents == IF rep.phase = "notes" THEN rep.notes_content ELSE rep.tasks_content
WithItem(section) ==
    IF rep.phase = "notes"
    THEN [rep EXCEPT !.notes_content = Append(@, section), !.k = @ + 1]
    ELSE [rep EXCEPT !.tasks_content = Append(@, section), !.k = @ + 1]

\* Line 167: the request starts with the fetch of the project page.
FetchProject ==
    /\ pc = "start" /\ mode \in {"report", "plain", "pair"}
    /\ inflight' = inflight \cup {PageReq(PrimaryId)}
    /\ log' = Append(log, PageReq(PrimaryId))
    /\ rep' = [rep EXCEPT !.phase = "primary"]
    /\ pc' = "project_page_wait"
    /\ UNCHANGED <<mode, stack, walk, out, tree, last, response>>
    /\ UNCHANGED <<call, pager, parked, world>>

\* Lines 297-298: anything raised outside the two item loops ends the request.
Fail(e) ==
    /\ response' = HttpError(e)
    /\ pc' = "done"

ProjectFailed ==
    /\ pc = "project_page_wait"
    /\ inflight' = inflight \ {PageReq(PrimaryId)}
    /\ Fail("get_page")
    /\ UNCHANGED <<mode, stack, walk, out, log, tree, last, rep>>
    /\ UNCHANGED <<call, pager, parked, world>>

\* Lines 168-181: title and relation ids, then the fetch of the page's blocks.
ProjectReturned ==
    /\ pc = "project_page_wait"
    /\ \E project_page \in ProjectPages :
         rep' = [rep EXCEPT
                   !.project_title = get_page_title(project_page),
                   !.notes_ids = extract_relation_ids(project_page, "Notes"),
                   !.tasks_ids = extract_relation_ids(project_page, "Tasks")]
    /\ inflight' = (inflight \ {PageReq(PrimaryId)}) \cup {KidsReq(PrimaryId)}
    /\ log' = Append(log, KidsReq(PrimaryId))
    /\ pc' = "project_blocks_wait"
    /\ UNCHANGED <<mode, stack, walk, out, tree, last, response>>
    /\ UNCHANGED <<call, pager, parked, world>>

ProjectBlocksFailed ==
    /\ pc = "project_blocks_wait"
    /\ inflight' = inflight \ {KidsReq(PrimaryId)}
    /\ Fail("get_block_children")
    /\ UNCHANGED <<mode, stack, walk, out, log, tree, last, rep>>
    /\ UNCHANGED <<call, pager, parked, world>>

\* The call of blocks_to_text_with_children on a fetched list.
BeginWalk(ps, flatten_headings) ==
    /\ tree' = tree \o NewNodes(ps, Len(tree))
    /\ walk' = [top |-> Range(Len(tree), Len(ps)), flatten |-> flatten_headings]
    /\ stack' = <<Frame(Range(Len(tree), Len(ps)), flatten_headings)>>
    /\ pc' = "walk"

\* Lines 181-182: the project's blocks are rendered, headings kept.
ProjectBlocksReturned ==
    /\ pc = "project_blocks_wait"
    /\ inflight' = inflight \ {KidsReq(PrimaryId)}
    /\ \E ps \in BlockLists(BudgetOf(mode) - Len(tree), PayloadsOf(mode)) :
         BeginWalk(ps, FALSE)
    /\ UNCHANGED <<mode, out, log, last, rep, response>>
    /\ UNCHANGED <<call, pager, parked, world>>

\* Lines 182-186: the project text is kept and the notes loop starts; an
\* exception of the rendering goes to line 297.
ProjectRendered ==
    /\ pc = "walked" /\ rep.phase = "primary"
    /\ IF out.ok
       THEN /\ rep' = [rep EXCEPT !.project_content = out.text, !.phase = "notes",
                                  !.k = 1]
            /\ pc' = "items"
            /\ UNCHANGED response
       ELSE Fail("block_to_text_with_children") /\ UNCHANGED rep
    /\ UNCHANGED <<mode, stack, walk, out, inflight, log, tree, last>>
    /\ UNCHANGED <<call, pager, parked, world>>

\* Lines 186-188 and 198-200: the next id of the group has its page fetched.
FetchItem ==
    /\ pc = "items" /\ rep.k <= Len(Ids)
    /\ inflight' = inflight \cup {PageReq(Ids[rep.k])}
    /\ log' = Append(log, PageReq(Ids[rep.k]))
    /\ pc' = "item_page_wait"
    /\ UNCHANGED <<mode, stack, walk, out, tree, last, rep, response>>
    /\ UNCHANGED <<call, pager, parked, world>>

\* A failed item is left out of its group.
ItemFailed_skipped ==
    /\ rep' = [rep EXCEPT !.k = @ + 1]
    /\ pc' = "items"
    /\ UNCHANGED response

\* A failed item ends the request.
ItemFailed_aborts ==
    /\ response' = HttpError("item")
    /\ pc' = "done"
    /\ UNCHANGED rep

\* A failed item is tried again.
ItemFailed_retried ==
    /\ pc' = "items"
    /\ UNCHANGED <<rep, response>>

\* Lines 193-194 and 230-231: the item's placeholder takes its place.
ItemFailed ==
    /\ rep' = WithItem(error_section(rep.phase))
    /\ pc' = "items"
    /\ UNCHANGED response

ItemPageFailed ==
    /\ pc = "item_page_wait"
    /\ inflight' = inflight \ {PageReq(Ids[rep.k])}
    /\ ItemFailed
    /\ UNCHANGED <<mode, stack, walk, out, log, tree, last>>
    /\ UNCHANGED <<call, pager, parked, world>>

\* Lines 189-190 and 201-226: title, for a task its properties, then the
\* fetch of the item's blocks.
ItemPageReturned ==
    /\ pc = "item_page_wait"
    /\ \E page \in ItemPages(Ids[rep.k]) :
         rep' = [rep EXCEPT
                   !.item_page = page,
                   !.item_title = get_page_title(page),
                   !.item_props = item_props_str(rep.phase, page)]
    /\ inflight' = (inflight \ {PageReq(Ids[rep.k])}) \cup {KidsReq(Ids[rep.k])}
    /\ log' = Append(log, KidsReq(Ids[rep.k]))
    /\ pc' = "item_blocks_wait"
    /\ UNCHANGED <<mode, stack, walk, out, tree, last, response>>
    /\ UNCHANGED <<call, pager, parked, world>>

ItemBlocksFailed ==
    /\ pc = "item_blocks_wait"
    /\ inflight' = inflight \ {KidsReq(Ids[rep.k])}
    /\ ItemFailed
    /\ UNCHANGED <<mode, stack, walk, out, log, tree, last>>
    /\ UNCHANGED <<call, pager, parked, world>>

\* Lines 190-191 and 226-227: the item's blocks are rendered, headings flattened.
ItemBlocksReturned ==
    /\ pc = "item_blocks_wait"
    /\ inflight' = inflight \ {KidsReq(Ids[rep.k])}
    /\ \E ps \in BlockLists(BudgetOf(mode) - Len(tree), PayloadsOf(mode)) :
         BeginWalk(ps, TRUE)
    /\ UNCHANGED <<mode, out, log, last, rep, response>>
    /\ UNCHANGED <<call, pager, parked, world>>

\* Lines 192-194 and 229-231: the item's section, or its placeholder when
\* the rendering raised.
ItemRendered ==
    /\ pc = "walked" /\ rep.phase \in {"notes", "tasks"}
    /\ IF out.ok
       THEN /\ rep' = WithItem(item_section(rep.item_title, rep.item_props, out.text))
            /\ pc' = "items"
            /\ UNCHANGED response
       ELSE ItemFailed
    /\ UNCHANGED <<mode, stack, walk, out, inflight, log, tree, last>>
    /\ UNCHANGED <<call, pager, parked, world>>

\* Line 197: the notes loop is over, the tasks loop starts.
NotesDone ==
    /\ pc = "items" /\ rep.phase = "notes" /\ rep.k > Len(Ids)
    /\ rep' = [rep EXCEPT !.phase = "tasks", !.k = 1]
    /\ UNCHANGED <<mode, pc, stack, walk, out, inflight, log, tree, last, response>>
    /\ UNCHANGED <<call, pager, parked, world>>

\* Lines 233-287: the report text is built and stored, and the write of the
\* project's URL property is sent.  upload_text_public_flexible (storage.py
\* 66-85) returns the URL or raises.
BuildAndUpload ==
    /\ pc = "items" /\ rep.phase = "tasks" /\ rep.k > Len(Ids)
    /\ \E stored \in BOOLEAN :
         LET timestamp == Minutes[world.minute]
             text == report_content(rep.project_title, Now, Now, rep.project_content,
                                    rep.notes_content, rep.tasks_content)
             path == blob_path(PrimaryId, slugify(rep.project_title), timestamp)
         IN  IF stored
             THEN /\ rep' = [rep EXCEPT
                               !.phase = "store",
                               !.report_content = text,
                               !.timestamp = timestamp,
                               !.public_url = upload_url(path)]
                  /\ world' = [world EXCEPT !.files = upload_text_local(@, path, text)]
                  /\ inflight' = inflight \cup {UpdateReq(PrimaryId)}
                  /\ log' = Append(log, UpdateReq(PrimaryId))
                  /\ pc' = "url_wait"
                  /\ UNCHANGED response
             ELSE Fail("upload_text_public_flexible")
                  /\ UNCHANGED <<rep, inflight, log, world>>
    /\ UNCHANGED <<mode, stack, walk, out, tree, last>>
    /\ UNCHANGED <<call, pager, parked>>

\* The property is written without the URL.
url_property_blank(page_id, url) == [page |-> page_id, prop |-> "Latest PDF URL", url |-> <<>>]

\* The property is written as notion.py lines 60-74 send it.
url_property(page_id, url) == [page |-> page_id, prop |-> "Latest PDF URL", url |-> url]

\* Lines 283-295: the service wrote the URL property and the result is
\* returned.
UrlUpdated ==
    /\ pc = "url_wait"
    /\ inflight' = inflight \ {UpdateReq(PrimaryId)}
    /\ world' = [world EXCEPT !.url_prop = Append(@, url_property(PrimaryId, rep.public_url))]
    /\ response' = Response("ok", "", rep.public_url, rep.project_title,
                            Len(rep.notes_ids), Len(rep.tasks_ids))
    /\ pc' = "done"
    /\ UNCHANGED <<mode, stack, walk, out, log, tree, last, rep>>
    /\ UNCHANGED <<call, pager, parked>>

UrlUpdateFailed ==
    /\ pc = "url_wait"
    /\ inflight' = inflight \ {UpdateReq(PrimaryId)}
    /\ Fail("update_page_url_property")
    /\ UNCHANGED <<mode, stack, walk, out, log, tree, last, rep>>
    /\ UNCHANGED <<call, pager, parked, world>>

(* ------------ the walker alone, on a list given by a caller ----------- *)

\* A caller hands blocks_to_text_with_children a list and a flag.
StartWalk ==
    /\ pc = "start" /\ mode \in {"walk", "kinds", "twin", "deep"}
    /\ \E ps \in BlockLists(BudgetOf(mode), PayloadsOf(mode)), f \in BOOLEAN :
         /\ tree' = NewNodes(ps, 0)
         /\ walk' = [top |-> Range(0, Len(ps)), flatten |-> f]
         /\ stack' = <<Frame(Range(0, Len(ps)), f)>>
    /\ pc' = "walk"
    /\ UNCHANGED <<rep, response, mode, out, inflight, log, last>>
    /\ UNCHANGED <<call, pager, parked, world>>

InitCommon ==
    /\ pc = "start" /\ stack = <<>> /\ walk = [top |-> <<>>, flatten |-> FALSE]
    /\ out = NoOut /\ inflight = {} /\ log = <<>> /\ tree = <<>> /\ last = NoLast
    /\ rep = NoRep /\ response = NoResponse /\ call = NoCall
    /\ pager = NoPager /\ parked = NoParked /\ world = NoWorld

InitWalk == mode = "walk" /\ InitCommon
InitKinds == mode = "kinds" /\ InitCommon

NextWalk ==
    \/ StartWalk
    \/ FetchChildren
    \/ ChildrenFailed
    \/ ChildrenReturned
    \/ Render
    \/ ReturnList

SpecWalk == InitWalk /\ [][NextWalk]_vars
SpecKinds == InitKinds /\ [][NextWalk]_vars

\* The service answers every fetch, with the children or a failure, and the
\* event loop resumes the call.
InitDeep == mode = "deep" /\ InitCommon
SpecWalkFair == InitDeep /\ [][NextWalk]_vars /\ WF_vars(NextWalk)

\* The caller calls blocks_to_text_with_children again with the same list
\* and the same flag; the first call's text is kept for comparison.
Rerun ==
    /\ mode = "twin" /\ pc = "walked" /\ parked.pc = "none"
    /\ parked' = Own
    /\ stack' = <<Frame(walk.top, walk.flatten)>>
    /\ pc' = "walk"
    /\ out' = NoOut
    /\ last' = NoLast
    /\ UNCHANGED <<mode, walk, inflight, log, tree, rep, response, call, pager, world>>

InitTwin == mode = "twin" /\ InitCommon

NextTwin ==
    \/ StartWalk
    \/ FetchChildren
    \/ ChildrenFailed
    \/ ChildrenReturned
    \/ Render
    \/ ReturnList
    \/ Rerun

SpecTwin == InitTwin /\ [][NextTwin]_vars

(* ------------------ two requests in one event loop -------------------- *)

\* A request for page_id that has not started.
Fresh(page_id) ==
    [pc |-> "start", stack |-> <<>>, walk |-> [top |-> <<>>, flatten |-> FALSE],
     out |-> NoOut, inflight |-> {}, log |-> <<>>, tree |-> <<>>, last |-> NoLast,
     rep |-> [NoRep EXCEPT !.page_id = page_id], response |-> NoResponse]

\* The running request is at an await: a remote call of its own is in
\* flight, or it has not started, or it is over.
Suspended == inflight # {} \/ pc \in {"start", "done"}

\* The event loop resumes the other request.  Each request has its own
\* locals and its own call of the walker; the files, the URL properties
\* and the clock are the same for both.
Switch ==
    /\ mode = "pair" /\ Suspended /\ parked.pc # "done"
    /\ parked' = Own
    /\ pc' = parked.pc /\ stack' = parked.stack /\ walk' = parked.walk
    /\ out' = parked.out /\ inflight' = parked.inflight /\ log' = parked.log
    /\ tree' = parked.tree /\ last' = parked.last /\ rep' = parked.rep
    /\ response' = parked.response
    /\ UNCHANGED <<mode, call, pager, world>>

\* A minute passes while the requests wait.
Tick ==
    /\ mode = "pair" /\ Suspended /\ world.minute < Len(Minutes)
    /\ world' = [world EXCEPT !.minute = @ + 1]
    /\ UNCHANGED <<mode, pc, stack, walk, out, inflight, log, tree, last, rep, response>>
    /\ UNCHANGED <<call, pager, parked>>

\* Two requests, for the same project page or for two pages.
InitPair ==
    /\ mode = "pair"
    /\ pc = "start" /\ stack = <<>> /\ walk = [top |-> <<>>, flatten |-> FALSE]
    /\ out = NoOut /\ inflight = {} /\ log = <<>> /\ tree = <<>> /\ last = NoLast
    /\ rep = NoRep /\ response = NoResponse /\ call = NoCall
    /\ pager = NoPager /\ world = NoWorld
    /\ parked \in {Fresh(PageIds[j]) : j \in 1..Len(PageIds)}

(* --------------- notion.py: get_block_children ----------------------- *)

\* The cursor the service hands out for each page but the first; "" is
\* None, no cursor.
Cursors == <<"", "c2", "c3", "c4", "c5">>
PageOf(cursor) == CHOOSE k \in 1..Len(Cursors) : Cursors[k] = cursor

\* Lines 32-39: the GET of one page; start_cursor is sent only if it is set.
PageOfChildrenReq(block_id, start_cursor) ==
    [op |-> "children_page", id |-> block_id, start_cursor |-> start_cursor]

\* The pages the service may make of a block's children when page k is
\* asked for the first time: it holds the next blocks, at most MaxPageSize
\* of them, and has_more is reported with the cursor of page k + 1.
NewPages(k, served) ==
    {[results |-> SubSeq(BlockNames, served + 1, served + n), has_more |-> m,
      next_cursor |-> IF m THEN Cursors[k + 1] ELSE ""] :
        n \in {x \in 0..MaxPageSize : served + x <= Len(BlockNames)},
        m \in {x \in BOOLEAN : x => k < MaxPages}}

RECURSIVE Flat(_)
Flat(lists) == IF lists = <<>> THEN <<>> ELSE Head(lists) \o Flat(Tail(lists))

Served == Len(Flat([j \in 1..Len(pager.pages) |-> pager.pages[j].results]))

\* The cursor is not kept: the next request is the first one again.
next_start_cursor_unset(data) == ""

\* Line 48.
next_start_cursor(data) == data.next_cursor

\* Lines 27-28: a caller asks for the children of a block.
StartPager ==
    /\ mode = "pager" /\ pager.st = "idle"
    /\ \E block_id \in {"P", "b1"} :
         pager' = [pager EXCEPT !.st = "loop", !.block_id = block_id]
    /\ UNCHANGED <<mode, pc, stack, walk, out, inflight, log, tree, last, rep, response>>
    /\ UNCHANGED <<call, parked, world>>

\* Lines 31-39: the request of the next page is sent.
RequestPage ==
    /\ mode = "pager" /\ pager.st = "loop"
    /\ inflight' = inflight \cup {PageOfChildrenReq(pager.block_id, pager.start_cursor)}
    /\ log' = Append(log, PageOfChildrenReq(pager.block_id, pager.start_cursor))
    /\ pager' = [pager EXCEPT !.st = "await"]
    /\ UNCHANGED <<mode, pc, stack, walk, out, tree, last, rep, response>>
    /\ UNCHANGED <<call, parked, world>>

\* Line 40: raise_for_status raises and the exception leaves the function.
PageFailed ==
    /\ mode = "pager" /\ pager.st = "await"
    /\ inflight' = {}
    /\ pager' = [pager EXCEPT !.st = "raised"]
    /\ UNCHANGED <<mode, pc, stack, walk, out, log, tree, last, rep, response>>
    /\ UNCHANGED <<call, parked, world>>

\* Lines 41-50: the page asked for arrives, the service answering a cursor
\* it has answered before as it did then; the results are appended, and
\* the loop goes on with the new cursor or the list is returned.
PageReturned ==
    /\ mode = "pager" /\ pager.st = "await"
    /\ LET k == PageOf(pager.start_cursor)
       IN  \E data \in IF k <= Len(pager.pages) THEN {pager.pages[k]}
                        ELSE NewPages(k, Served) :
             pager' = [pager EXCEPT
                         !.pages = IF k <= Len(pager.pages) THEN @ ELSE Append(@, data),
                         !.all_blocks = @ \o data.results,
                         !.start_cursor = IF data.has_more THEN next_start_cursor(data) ELSE @,
                         !.st = IF data.has_more THEN "loop" ELSE "returned"]
    /\ inflight' = {}
    /\ UNCHANGED <<mode, pc, stack, walk, out, log, tree, last, rep, response>>
    /\ UNCHANGED <<call, parked, world>>

InitPager == mode = "pager" /\ InitCommon

NextPager ==
    \/ StartPager
    \/ RequestPage
    \/ PageFailed
    \/ PageReturned

\* The service answers every request, with a page or a failure.
SpecPager == InitPager /\ [][NextPager]_vars /\ WF_vars(NextPager)

Init == mode = "report" /\ InitCommon

\* Every remote call of a request: those of generate_report and of the
\* walker, and those get_block_children makes page by page.
InitFetches == InitPager \/ Init

NextFetches ==
    \/ FetchProject
    \/ ProjectFailed
    \/ ProjectReturned
    \/ ProjectBlocksFailed
    \/ ProjectBlocksReturned
    \/ ProjectRendered
    \/ FetchItem
    \/ ItemPageFailed
    \/ ItemPageReturned
    \/ ItemBlocksFailed
    \/ ItemBlocksReturned
    \/ ItemRendered
    \/ NotesDone
    \/ BuildAndUpload
    \/ UrlUpdated
    \/ UrlUpdateFailed
    \/ FetchChildren
    \/ ChildrenFailed
    \/ ChildrenReturned
    \/ Render
    \/ ReturnList
    \/ StartPager
    \/ RequestPage
    \/ PageFailed
    \/ PageReturned

SpecFetches == InitFetches /\ [][NextFetches]_vars

Next ==
    \/ FetchProject
    \/ ProjectFailed
    \/ ProjectReturned
    \/ ProjectBlocksFailed
    \/ ProjectBlocksReturned
    \/ ProjectRendered
    \/ FetchItem
    \/ ItemPageFailed
    \/ ItemPageReturned
    \/ ItemBlocksFailed
    \/ ItemBlocksReturned
    \/ ItemRendered
    \/ NotesDone
    \/ BuildAndUpload
    \/ UrlUpdated
    \/ UrlUpdateFailed
    \/ FetchChildren
    \/ ChildrenFailed
    \/ ChildrenReturned
    \/ Render
    \/ ReturnList

Spec == Init /\ [][Next]_vars

NextPair ==
    \/ FetchProject
    \/ ProjectFailed
    \/ ProjectReturned
    \/ ProjectBlocksFailed
    \/ ProjectBlocksReturned
    \/ ProjectRendered
    \/ FetchItem
    \/ ItemPageFailed
    \/ ItemPageReturned
    \/ ItemBlocksFailed
    \/ ItemBlocksReturned
    \/ ItemRendered
    \/ NotesDone
    \/ BuildAndUpload
    \/ UrlUpdated
    \/ UrlUpdateFailed
    \/ FetchChildren
    \/ ChildrenFailed
    \/ ChildrenReturned
    \/ Render
    \/ ReturnList
    \/ Switch
    \/ Tick

SpecPair == InitPair /\ [][NextPair]_vars

\* generate_report on pages without malformed blocks.
InitPlain == mode = "plain" /\ InitCommon
SpecPlain == InitPlain /\ [][Next]_vars

(* ------------- the functions that make no remote call ----------------- *)

\* One call is made in a run.
Ready == mode = "calls" /\ call = NoCall

Called(fn, arg, ret) ==
    /\ call' = [fn |-> fn, arg |-> arg, ret |-> ret]
    /\ UNCHANGED <<mode, pc, stack, walk, out, inflight, log, tree, last, rep, response>>
    /\ UNCHANGED <<pager, parked, world>>

\* The spans of a rich_text array: text spans with every combination of
\* annotations, with and without a link, and spans of another type, which
\* carry no "text" object.
RichSpans ==
    {[type |-> "text", content |-> c, bold |-> b, italic |-> i,
      strikethrough |-> s, code |-> k, href |-> h] :
        c \in {"a", "b"}, b \in BOOLEAN, i \in BOOLEAN, s \in BOOLEAN,
        k \in BOOLEAN, h \in {"", "u"}}
    \cup {[type |-> "mention", content |-> "", bold |-> b, italic |-> FALSE,
           strikethrough |-> FALSE, code |-> FALSE, href |-> h] :
            b \in BOOLEAN, h \in {"", "u"}}

RichTexts == UNION {[1..k -> RichSpans] : k \in 0..MaxSpans}

CallRichText ==
    /\ Ready
    /\ \E rich_text \in RichTexts :
           Called("extract_rich_text_content", rich_text,
                  extract_rich_text_content(rich_text))

\* Lines of a text handed to generate_table_of_contents, character by
\* character: headings as the renderer writes them, a heading without text,
\* a line of seven "#", a "#" without a space, a plain and an empty line.
TocLines ==
    {<<"#", " ", "A">>,
     <<"#", "#", " ", "B", " ", "b">>,
     <<"#", "#", "#", " ", "C", "-", "c", "!">>,
     <<"#", " ">>,
     <<"#", "#", " ", " ">>,
     <<"#", "#", "#", "#", "#", "#", "#", " ", "A">>,
     <<"#", "A">>,
     <<"A">>,
     <<>>}

TocTexts ==
    {JoinWith(<<>>, [j \in 1..Len(ls) |-> ls[j] \o <<NL>>]) :
        ls \in UNION {[1..k -> TocLines] : k \in 0..MaxLines}}

CallToc ==
    /\ Ready
    /\ \E content \in TocTexts :
           Called("generate_table_of_contents", content, generate_table_of_contents(content))

\* Project titles, character by character, and texts of the three parts.
SpliceTitles == {<<>>, <<"A">>, <<"A", " ", "b">>, <<"-", "-", "-">>}
SpliceProject == {<<>>, <<"# ", "A", NL>>, <<"A", NL>>}
SpliceItems(grp) == {<<>>, <<item_section(<<"A">>, <<>>, <<"A", NL>>)>>,
                     <<error_section(grp), item_section(<<"b">>, <<>>, <<>>)>>}

\* Lines 233-271 of generate_report, with the clock read at line 239 and
\* again, not earlier, at line 268.
CallReportContent ==
    /\ Ready
    /\ \E project_title \in SpliceTitles, r1 \in 1..2, r2 \in 1..2,
          project_content \in SpliceProject,
          notes_content \in SpliceItems("notes"), tasks_content \in SpliceItems("tasks") :
           /\ r1 <= r2
           /\ Called("report_content",
                     [project_title |-> project_title, now1 |-> Clock[r1], now2 |-> Clock[r2],
                      project_content |-> project_content,
                      notes_content |-> notes_content, tasks_content |-> tasks_content],
                     report_content(project_title, Clock[r1], Clock[r2], project_content,
                                    notes_content, tasks_content))

\* The property a record may carry under one name: none, or one of the
\* given type and values.
Maybe(name, type, values) == {<<>>} \cup {<<Prop(name, type, v)>> : v \in values}

\* The records of a linked item: a title, and for each name the code reads
\* no property, a property with a value, with a null value or with a value
\* that has no name; "Status" also with the type tag of a select.
TaskPages ==
    {[id |-> "t1",
      properties |-> <<TitleProp("t1")>> \o st \o kb \o pr \o due \o dd \o info \o tags \o asg] :
        st \in Maybe("Status", "status", {<<"Done">>, <<>>, <<"">>})
               \cup Maybe("Status", "select", {<<"Done">>}),
        kb \in Maybe("Kanban", "status", {<<"Open">>, <<>>}),
        pr \in Maybe("Priority", "select", {<<"High">>, <<>>, <<"">>}),
        due \in Maybe("Do date", "date", {<<"2025-01-02">>, <<>>}),
        dd \in Maybe("Date done", "date", {<<"2025-01-03">>}),
        info \in Maybe("Info", "formula", {<<"note">>, <<"">>}),
        tags \in Maybe("Tags", "multi_select", {<<"x", "y">>, <<>>}),
        asg \in Maybe("Assignee", "people", {<<"Ann">>, <<"">>, <<"Ann", "Bob">>})}

\* Lines 188-192 and 201-229 without the remote calls: the record of a
\* note or task and the text of its blocks give its section.
CallItemSection ==
    /\ Ready
    /\ \E grp \in {"notes", "tasks"}, page \in TaskPages :
           Called("item_section", [grp |-> grp, page |-> page],
                  [props |-> extract_task_properties(page),
                   section |-> item_section(get_page_title(page), item_props_str(grp, page),
                                            <<"A", NL>>)])

\* The properties a record may carry under one name: title-typed or not,
\* with no span, one or two spans of text, or one span without text content
\* (a mention).  The text of a span names its property.
TitleNames == {"Name", "Title", "Page", "Heading"}
TitleProps ==
    {Prop(n, t, v) : <<n, v>> \in {<<x, y>> \in TitleNames \X {<<>>, <<"Name">>, <<"Title">>,
                                        <<"Page">>, <<"Heading">>, <<"Name", "2">>, <<"">>} :
                                        y \in {<<>>, <<x>>, <<"Name", "2">>, <<"">>}
                                        /\ (y = <<"Name", "2">> => x = "Name")},
                   t \in {"title", "rich_text"}}

\* The records handed to get_page_title: properties of different names in
\* every order.
TitlePages ==
    {[id |-> "t1", properties |-> ps] :
        ps \in {f \in UNION {[1..k -> TitleProps] : k \in 0..MaxProps} :
                  \A i, j \in 1..Len(f) : i # j => f[i].name # f[j].name}}

CallPageTitle ==
    /\ Ready
    /\ \E page \in TitlePages : Called("get_page_title", page, get_page_title(page))

InitCalls == mode = "calls" /\ InitCommon

NextCalls ==
    \/ CallRichText
    \/ CallToc
    \/ CallReportContent
    \/ CallItemSection
    \/ CallPageTitle

SpecCalls == InitCalls /\ [][NextCalls]_vars

(* ------------------------ checked properties -------------------------- *)

Nodes == 1..Len(tree)
Dispatched == last.n # 0
LastBlock == tree[last.n].block
KeySet == {BlockNames[j] : j \in 1..Len(BlockNames)}
Keys(text) == SelectSeq(text, LAMBDA t : t \in KeySet)
HeadingTypes == {"heading_1", "heading_2", "heading_3"}

\* The text of a block list by recursion over the tree the service
\* returned: the children of a block count where their fetch succeeded and
\* their rendering did not raise.
RECURSIVE RefList(_, _)
RefList(list, f) ==
    IF list = <<>> THEN Ok(<<>>)
    ELSE LET n == Head(list)
             sub == IF tree[n].fetch = "ok" /\ tree[n].kids # <<>>
                    THEN RefList(tree[n].kids, f) ELSE Ok(<<>>)
             r == block_fragment(tree[n].block, f, IF sub.ok THEN sub.text ELSE <<>>)
         IN  IF ~r.ok THEN Raised
             ELSE LET rest == RefList(Tail(list), f)
                  IN  IF rest.ok THEN Ok(r.text \o rest.text) ELSE Raised

\* The keys of the blocks in depth-first pre-order, of those blocks whose
\* own fragment shows their text; the children of a block count where
\* their text reached the block's fragment.
RECURSIVE PreOrder(_)
PreOrder(list) ==
    IF list = <<>> THEN <<>>
    ELSE LET n == Head(list)
         IN  Keys(block_fragment(tree[n].block, walk.flatten, <<>>).text)
             \o (IF tree[n].fetch = "ok" /\ ~tree[n].dropped
                 THEN PreOrder(tree[n].kids) ELSE <<>>)
             \o PreOrder(Tail(list))

SectionOf(grp, sec, id) ==
    \/ sec = error_section(grp)
    \/ Len(sec) >= 2 /\ sec[1] = "### " /\ sec[2] = id

\* What follows each "### " marker of a text, in order.
SectionHeads(text) ==
    LET S == {j \in 1..(Len(text) - 1) : text[j] = "### "}
        at == [k \in 1..Cardinality(S) |->
                 CHOOSE j \in S : Cardinality({i \in S : i < j}) = k - 1]
    IN  [k \in 1..Cardinality(S) |-> text[at[k] + 1]]

HeadOf(grp, sec) ==
    IF sec = error_section(grp) THEN error_section(grp)[2] ELSE sec[2]

GroupHeads(grp, secs) == [j \in 1..Len(secs) |-> HeadOf(grp, secs[j])]

\* C1: in generate_report a failing note or task never ends the request;
\* each group of N ids yields exactly N sections, one per id in relation
\* order, a failed item's section being its error placeholder; the text
\* holds exactly these sections, and the returned counts are N.
C1_ItemSections ==
    /\ (rep.phase \in {"notes", "tasks"} /\ pc # "done") => response.status = "none"
    /\ rep.phase \in {"tasks", "store"} =>
         /\ Len(rep.notes_content) = Len(rep.notes_ids)
         /\ \A j \in 1..Len(rep.notes_ids) :
              SectionOf("notes", rep.notes_content[j], rep.notes_ids[j])
    /\ rep.phase = "store" =>
         /\ Len(rep.tasks_content) = Len(rep.tasks_ids)
         /\ \A j \in 1..Len(rep.tasks_ids) :
              SectionOf("tasks", rep.tasks_content[j], rep.tasks_ids[j])
         /\ SectionHeads(rep.report_content)
              = GroupHeads("notes", rep.notes_content)
                \o GroupHeads("tasks", rep.tasks_content)
    /\ response.status = "ok" =>
         /\ response.notes_count = Len(rep.notes_ids)
         /\ response.tasks_count = Len(rep.tasks_ids)
         /\ response.notes_count = Len(rep.notes_content)
         /\ response.tasks_count = Len(rep.tasks_content)

\* C1 witness: a report of two notes was returned, the first note failed
\* and the second did not.
C1_Witness ==
    /\ response.status = "ok"
    /\ Len(rep.notes_ids) = 2
    /\ rep.notes_content[1] = error_section("notes")
    /\ rep.notes_content[2] # error_section("notes")

\* C2 as stated: generate_report raises only when the fetch of the primary
\* page or of its blocks failed.
C2_RaisesOnlyOnPrimaryFetch ==
    response.status = "raised" => response.detail \in {"get_page", "get_block_children"}

\* C2 as amended: generate_report raises exactly when a step outside the
\* two item loops fails: the fetch of the primary page or of its blocks, the
\* rendering of a block of the primary page, the storing of the text or the
\* write of the URL property; a failed children fetch and any failure inside
\* a note or task never end the request.
C2_RaisesOutsideItemLoops ==
    /\ pc # "done" => response.status = "none"
    /\ pc = "done" =>
         \/ response.status = "ok" /\ rep.phase = "store"
         \/ /\ response.status = "raised"
            /\ response.detail
                 \in {"get_page", "get_block_children", "block_to_text_with_children"}
            /\ rep.phase = "primary"
            /\ response.detail = "block_to_text_with_children" => ~last.res.ok
         \/ /\ response.status = "raised"
            /\ response.detail = "upload_text_public_flexible"
            /\ rep.phase = "tasks"
         \/ /\ response.status = "raised"
            /\ response.detail = "update_page_url_property"
            /\ rep.phase = "store"

\* C2 witness: a report was returned although a children fetch failed and a
\* note or task failed.
C2_Witness ==
    /\ response.status = "ok"
    /\ \E n \in Nodes : tree[n].fetch = "failed"
    /\ \E j \in 1..Len(rep.tasks_content) : rep.tasks_content[j] = error_section("tasks")

\* C3 as stated: when the children fetch of a block raises, no exception
\* leaves the call that renders the block.
C3_NoExceptionOnFetchFailure ==
    \A n \in Nodes : (tree[n].fetch = "failed" /\ last.n = n) => last.res.ok

\* C4: the returned text holds the blocks' own texts in depth-first
\* pre-order: input order among siblings, a block before its children, the
\* children in the order the fetch returned them.
C4_DocumentOrder ==
    (pc = "walked" /\ out.ok) => Keys(out.text) = PreOrder(walk.top)

\* C4 witness: the first of two blocks has a child, which the service
\* returned after the second block and which is rendered before it.
C4_Witness ==
    /\ pc = "walked" /\ out.ok
    /\ Keys(out.text) = <<"b1", "b3", "b2">>

\* C5: at most one remote call is in flight; it is the one issued last; a
\* page is requested only while no rendering is going on, and a children
\* fetch only by the innermost call, all enclosing calls waiting for it.
C5_OneFetchInFlight ==
    /\ Cardinality(inflight) <= 1
    /\ \A r \in inflight :
         /\ log # <<>> /\ log[Len(log)] = r
         /\ r.op \in {"page", "update"} => stack = <<>>
         /\ (r.op = "page" /\ rep.phase \in {"notes", "tasks"}) =>
              /\ rep.k <= Len(Ids) /\ r = PageReq(Ids[rep.k])
              /\ Len(Contents) = rep.k - 1
         /\ stack # <<>> =>
              /\ Top.st = "await"
              /\ r = ChildrenReq(Cur)
              /\ \A d \in 1..(Len(stack) - 1) : stack[d].st = "child"
    /\ inflight = {} => \A d \in 1..Len(stack) : stack[d].st # "await"

\* C5 witness: the page of the second item of a group is being fetched
\* after a block's children were fetched and rendered.
C5_Witness ==
    /\ rep.phase \in {"notes", "tasks"} /\ rep.k = 2 /\ Len(Ids) = 2
    /\ inflight = {PageReq(Ids[2])}
    /\ \E n \in Nodes : tree[n].fetch = "ok" /\ tree[n].kids # <<>>

\* C6: children are requested only for toggle, callout, quote,
\* bulleted_list_item, numbered_list_item and to_do blocks; a block of any
\* other type is dispatched without a fetch and with empty children text,
\* also when the service reports that it has children.
C6_OnlyContainerKindsFetch ==
    LET kinds == {"toggle", "callout", "quote", "bulleted_list_item",
                  "numbered_list_item", "to_do"}
    IN  /\ \A j \in 1..Len(log) :
             \E n \in Nodes : tree[n].block.id = log[j].id /\ tree[n].block.type \in kinds
        /\ \A n \in Nodes : tree[n].block.type \notin kinds =>
             /\ tree[n].fetch = "none" /\ tree[n].kids = <<>>
             /\ last.n = n => last.cc = <<>>

\* C6 witness: a heading for which the service reports children was
\* dispatched.
C6_Witness ==
    /\ Dispatched
    /\ LastBlock.type = "heading_1" /\ LastBlock.has_children
    /\ pc = "walked"

\* C7: a block whose type is none of the known ones is rendered as the
\* line "[Unsupported block: <type>]" and never raises, and the siblings of
\* such a block are rendered as without it.
C7_UnsupportedPlaceholder ==
    /\ (Dispatched /\ LastBlock.type \notin KnownTypes) =>
         /\ last.res.ok
         /\ last.res.text = <<"[Unsupported block: ">> \o Tok(LastBlock.type) \o <<"]", NL>>
    /\ (pc = "walked" /\ out.ok /\ walk.top # <<>>
        /\ tree[walk.top[1]].block.type \notin KnownTypes) =>
         /\ SubSeq(out.text, 1, Len(Tok(tree[walk.top[1]].block.type)) + 3)
              = <<"[Unsupported block: ">> \o Tok(tree[walk.top[1]].block.type) \o <<"]", NL>>
         /\ Ok(SubSeq(out.text, Len(Tok(tree[walk.top[1]].block.type)) + 4, Len(out.text)))
              = RefList(Tail(walk.top), walk.flatten)

\* C7 witness: a block without a type was rendered, followed by a sibling.
C7_Witness ==
    /\ pc = "walked" /\ out.ok
    /\ Len(walk.top) = 2
    /\ tree[walk.top[1]].block.type = ""
    /\ tree[walk.top[2]].block.type = "paragraph"

\* C8 as stated: no dispatch raises because a field is missing or null.
C8_NeverRaisesOnMissingField == Dispatched => last.res.ok

\* C9: with flatten_headings set, every call of the walk has the flag set,
\* every heading at any depth is rendered as bold text followed by a blank
\* line, and no heading marker appears in the returned text.
C9_FlattenedHeadings ==
    walk.flatten =>
        /\ \A d \in 1..Len(stack) : stack[d].flatten
        /\ (Dispatched /\ LastBlock.type \in HeadingTypes) =>
             /\ last.flatten
             /\ last.res.text
                  = <<"**">> \o extract_text_content(LastBlock) \o <<"**", NL, NL>>
        /\ (pc = "walked" /\ out.ok) =>
             \A j \in 1..Len(out.text) : out.text[j] \notin Markers

\* C9 witness: a heading below a container was rendered with the flag set.
C9_Witness ==
    /\ walk.flatten /\ pc = "walked" /\ out.ok
    /\ \E n \in Nodes :
         /\ tree[n].fetch = "ok" /\ tree[n].kids # <<>>
         /\ tree[tree[n].kids[1]].block.type = "heading_3"

\* C10: a paragraph without text renders to exactly one line break and a
\* paragraph with text to its text and one line break, in both renderers.
C10_ParagraphLine ==
    (Dispatched /\ LastBlock.type = "paragraph") =>
        /\ last.cc = <<>>
        /\ last.res = Ok(extract_text_content(LastBlock) \o <<NL>>)
        /\ block_to_text(LastBlock, last.flatten)
             = Ok(extract_text_content(LastBlock) \o <<NL>>)
        /\ last.res.text # <<>>

\* C10 witness: a paragraph without text was rendered.
C10_Witness ==
    /\ Dispatched
    /\ LastBlock.type = "paragraph" /\ LastBlock.rich_text = <<>>
    /\ last.res.text = <<NL>>

Last(text) == text[Len(text)]
Terminated(text) == text # <<>> /\ Last(text) = NL

\* C11: every fragment the dispatch returns, for every block type, both
\* values of flatten_headings and every children text, is non-empty and
\* ends with a line break; so does the text gathered so far by every call
\* of blocks_to_text_with_children unless it is empty, and the text returned
\* for a non-empty list.
C11_FragmentsTerminated ==
    /\ (Dispatched /\ last.res.ok) =>
         /\ Terminated(last.res.text)
         /\ last.cc # <<>> => Terminated(last.cc)
    /\ \A d \in 1..Len(stack) :
         /\ stack[d].result # <<>> => Terminated(stack[d].result)
         /\ stack[d].cc # <<>> => Terminated(stack[d].cc)
    /\ (pc = "walked" /\ out.ok /\ walk.top # <<>>) => Terminated(out.text)

\* C11 witness: a quote was rendered with the text of its child, which
\* ends the quote's fragment.
C11_Witness ==
    /\ Dispatched /\ last.res.ok
    /\ LastBlock.type = "quote" /\ last.cc # <<>>
    /\ Last(last.res.text) = Last(last.cc)

Returned(fn) == call.fn = fn

\* The markers of a span from the outermost to the innermost, and back.
Opening(s) ==
    (IF s.href # "" THEN <<"[">> ELSE <<>>) \o (IF s.code THEN <<BT>> ELSE <<>>)
    \o (IF s.strikethrough THEN <<"~~">> ELSE <<>>)
    \o (IF s.italic THEN <<"*">> ELSE <<>>) \o (IF s.bold THEN <<"**">> ELSE <<>>)
Closing(s) ==
    (IF s.bold THEN <<"**">> ELSE <<>>) \o (IF s.italic THEN <<"*">> ELSE <<>>)
    \o (IF s.strikethrough THEN <<"~~">> ELSE <<>>)
    \o (IF s.code THEN <<BT>> ELSE <<>>)
    \o (IF s.href # "" THEN <<"](", s.href, ")">> ELSE <<>>)
Wrapped(s) == Opening(s) \o Tok(s.content) \o Closing(s)

\* C12 as stated: extract_rich_text_content returns the concatenation, in
\* input order, of every span of its input, each wrapped in bold, italic,
\* strikethrough, inline code and link, from the inside out.
C12_EverySpanWrapped ==
    Returned("extract_rich_text_content") =>
        call.ret = JoinWith(<<>>, [j \in 1..Len(call.arg) |-> Wrapped(call.arg[j])])

\* C12 as amended: extract_rich_text_content returns the concatenation, in
\* input order, of the spans of type "text", each wrapped in bold, italic,
\* strikethrough, inline code and link, from the inside out, the link
\* target copied as it is; a span of another type adds nothing, whatever
\* its annotations and link; an empty sequence gives the empty string.
C12_TextSpansWrapped ==
    Returned("extract_rich_text_content") =>
        /\ call.ret = JoinWith(<<>>, [j \in 1..Len(call.arg) |->
                          IF call.arg[j].type = "text" THEN Wrapped(call.arg[j])
                          ELSE <<>>])
        /\ call.arg = <<>> => call.ret = <<>>

\* C12 witness: a span with every annotation and a link, followed by a
\* plain span.
C12_Witness ==
    /\ Returned("extract_rich_text_content")
    /\ Len(call.arg) = 2
    /\ call.ret = <<"[", BT, "~~", "*", "**", "a", "**", "*", "~~", BT, "](", "u", ")", "b">>

\* The lines of a text: what stands between its line breaks.
RECURSIVE LinesFrom(_, _)
LinesFrom(c, i) ==
    IF i > Len(c) THEN <<>>
    ELSE <<SubSeq(c, i, LineEnd(c, i) - 1)>> \o LinesFrom(c, LineEnd(c, i) + 1)

\* A heading line is one to six "#", one space, and a title that is not
\* empty; the title is what follows the white space after the "#".
HashesOf(l) == SkipHashes(l, 1) - 1
TitleOf(l) == SubSeq(l, SkipWhite(l, HashesOf(l) + 1), Len(l))
IsHeadingLine(l) ==
    /\ HashesOf(l) \in 1..6
    /\ HashesOf(l) < Len(l) /\ l[HashesOf(l) + 1] = " "
    /\ TitleOf(l) # <<>>

HeadingLines(c) == SelectSeq(LinesFrom(c, 1), IsHeadingLine)

EntryOf(l) ==
    [j \in 1..(HashesOf(l) - 1) |-> "  "] \o <<"- [">> \o TitleOf(l) \o <<"](#">>
    \o anchor(TitleOf(l)) \o <<")">>

TocOf(ls) ==
    JoinWith(<<NL>>, <<(<<"## ", "Table of Contents", NL>>)>>
                     \o [j \in 1..Len(ls) |-> EntryOf(ls[j])])
    \o <<NL, NL, "---", NL, NL>>

\* C13 as stated: generate_table_of_contents emits exactly one entry per
\* heading line of its input, in order of appearance, indented by two
\* spaces per level above the first and linking to the slug of the title.
C13_OneEntryPerHeadingLine ==
    Returned("generate_table_of_contents") => call.ret = TocOf(HeadingLines(call.arg))

\* C14 as stated: the title of every entry is text of the line that carries
\* the "#" marker, and a line made only of "#" and white space gives no
\* entry.
C14_TitleOnMarkerLine ==
    Returned("generate_table_of_contents") =>
        LET hs == find_headings(call.arg, 1)
        IN  \A j \in 1..Len(hs) :
              \E k \in 1..Len(LinesFrom(call.arg, 1)) :
                 LET l == LinesFrom(call.arg, 1)[k]
                 IN  IsHeadingLine(l) /\ hs[j].title = TitleOf(l)
                     /\ hs[j].level = HashesOf(l)

\* The index of the first token t of a text, 0 if there is none.
FirstAt(text, t) ==
    IF \E j \in 1..Len(text) : text[j] = t
    THEN CHOOSE j \in 1..Len(text) : text[j] = t /\ \A k \in 1..(j - 1) : text[k] # t
    ELSE 0

MainOf(a) ==
    main_content(a.project_title, a.now1, a.project_content, a.notes_content,
                 a.tasks_content)

\* C15: the final text is the title line and the timestamp line, the table
\* of contents of the text before the splice, and that text from its first
\* horizontal rule onward; the part before the rule is the title line and
\* the timestamp line of the first clock reading, so nothing of the text is
\* lost, doubled or moved, whatever the title and the two clock readings.
C15_SpliceKeepsBody ==
    Returned("report_content") =>
        LET main == MainOf(call.arg)
            rule == FirstAt(main, "---")
            header(now) == <<"# ">> \o call.arg.project_title
                           \o <<NL, NL, "**Generated:** ", now, NL, NL>>
        IN  /\ rule # 0
            /\ SubSeq(main, 1, rule - 1) = header(call.arg.now1)
            /\ call.ret = header(call.arg.now2) \o generate_table_of_contents(main)
                          \o SubSeq(main, rule, Len(main))

\* C15 witness: the clock moved between the two readings, the title has
\* three characters and every part has text.
C15_Witness ==
    /\ Returned("report_content")
    /\ call.arg.now1 # call.arg.now2
    /\ Len(call.arg.project_title) = 3
    /\ call.arg.project_content # <<>>
    /\ Len(call.arg.notes_content) = 2 /\ Len(call.arg.tasks_content) = 1
    /\ FirstAt(call.ret, "---") > Len(call.arg.project_title) + 7

TaskProps == call.ret.props
PageProp(name) == GetProp(call.arg.page.properties, name)
Qualifies(p) == p.type = "status" /\ p.value # <<>> /\ p.value[1] # ""

\* The property a key of the mapping is read from, and its type tag.
SourceOf(key) ==
    CASE key = "priority" -> <<"Priority", "select">>
      [] key = "due_date" -> <<"Do date", "date">>
      [] key = "date_done" -> <<"Date done", "date">>
      [] key = "info" -> <<"Info", "formula">>
      [] key = "tags" -> <<"Tags", "multi_select">>
      [] key = "assignee" -> <<"Assignee", "people">>

\* C16 as stated: the mapping of extract_task_properties holds a key only
\* if the property exists with the expected type tag and a value that is
\* not empty; no key is mapped to the empty string; without a status-typed
\* "Status" or "Kanban" there is no status key.
C16_KeysOnlyForValues ==
    Returned("item_section") =>
        /\ DOMAIN TaskProps \subseteq
             {"status", "priority", "due_date", "date_done", "info", "tags", "assignee"}
        /\ \A key \in DOMAIN TaskProps :
             /\ TaskProps[key] # <<>>
             /\ key # "status" =>
                  /\ PageProp(SourceOf(key)[1]).type = SourceOf(key)[2]
                  /\ PageProp(SourceOf(key)[1]).value # <<>>
        /\ "status" \in DOMAIN TaskProps =>
             PageProp("Status").type = "status" \/ PageProp("Kanban").type = "status"

\* C17: the status is the name of "Status" when that property is
\* status-typed and has a name, also when "Kanban" qualifies too; it is the
\* name of "Kanban" only when "Status" is absent, of another type or
\* without a name; and there is no status when neither qualifies.
C17_StatusBeforeKanban ==
    Returned("item_section") =>
        /\ Qualifies(PageProp("Status")) =>
             /\ "status" \in DOMAIN TaskProps
             /\ TaskProps["status"] = <<PageProp("Status").value[1]>>
        /\ (~Qualifies(PageProp("Status")) /\ Qualifies(PageProp("Kanban"))) =>
             /\ "status" \in DOMAIN TaskProps
             /\ TaskProps["status"] = <<PageProp("Kanban").value[1]>>
        /\ (~Qualifies(PageProp("Status")) /\ ~Qualifies(PageProp("Kanban"))) =>
             "status" \notin DOMAIN TaskProps

\* C17 witness: both properties qualify and the status is "Status"'s.
C17_Witness ==
    /\ Returned("item_section")
    /\ Qualifies(PageProp("Status")) /\ Qualifies(PageProp("Kanban"))
    /\ PageProp("Status").value # PageProp("Kanban").value
    /\ TaskProps["status"] = <<"Done">>

\* The labels of the summary in their order.
SummaryLabels ==
    <<[key |-> "status", open |-> "**Status: ", close |-> <<"**">>],
      [key |-> "priority", open |-> "Priority: ", close |-> <<>>],
      [key |-> "due_date", open |-> "Due: ", close |-> <<>>],
      [key |-> "date_done", open |-> "Done: ", close |-> <<>>],
      [key |-> "assignee", open |-> "Assignee: ", close |-> <<>>],
      [key |-> "tags", open |-> "Tags: ", close |-> <<>>],
      [key |-> "info", open |-> "Info: ", close |-> <<>>]>>

Shown == SelectSeq(SummaryLabels,
                   LAMBDA e : e.key \in DOMAIN TaskProps /\ TaskProps[e.key] # <<>>)

\* C18: the section of a task starts with "### ", its title and, when a
\* property is present, " - " and the present properties in the order
\* status (bold), priority, due date, done date, assignee, tags, info,
\* joined by ", "; an absent property leaves nothing, a task without
\* properties has no " - ", and the section of a note has no summary.
C18_TitleLine ==
    Returned("item_section") =>
        LET summary ==
                IF Shown = <<>> \/ call.arg.grp = "notes" THEN <<>>
                ELSE <<" - ">>
                     \o JoinWith(<<", ">>, [j \in 1..Len(Shown) |->
                            <<Shown[j].open>> \o TaskProps[Shown[j].key] \o Shown[j].close])
        IN  call.ret.section
              = <<"### ", "t1">> \o summary \o <<NL, NL, "A", NL, NL>>

\* C18 witness: a task with all seven properties.
C18_Witness ==
    /\ Returned("item_section") /\ call.arg.grp = "tasks"
    /\ Len(call.ret.section) > 29
    /\ SubSeq(call.ret.section, 1, 25)
         = <<"### ", "t1", " - ", "**Status: ", "Done", "**", ", ", "Priority: ", "High",
             ", ", "Due: ", "2025-01-02", ", ", "Done: ", "2025-01-03", ", ",
             "Assignee: ", "Ann", ", ", "Bob", ", ", "Tags: ", "x", ", ", "y">>
    /\ SubSeq(call.ret.section, 26, 29) = <<", ", "Info: ", "note", NL>>

Holds(text, t) == \E j \in 1..Len(text) : text[j] = t

\* The token t stands right under the heading of the section named name.
UnderHeading(text, name, t) ==
    \E j \in 5..Len(text) :
        text[j] = t /\ SubSeq(text, j - 4, j - 1) = <<"## ", name, NL, NL>>

AllFailed(grp, secs) == \A j \in 1..Len(secs) : secs[j] = error_section(grp)

\* C19: the assembled report holds "*No notes found.*" exactly when the
\* notes relation has no id, and then right under the Notes heading; the
\* same for tasks; a group all of whose items failed shows its error
\* placeholders and not the empty-group placeholder.
C19_EmptyGroupPlaceholder ==
    rep.phase = "store" =>
        /\ Holds(rep.report_content, "*No notes found.*") <=> rep.notes_ids = <<>>
        /\ Holds(rep.report_content, "*No tasks found.*") <=> rep.tasks_ids = <<>>
        /\ rep.notes_ids = <<>> =>
             UnderHeading(rep.report_content, "Notes", "*No notes found.*")
        /\ rep.tasks_ids = <<>> =>
             UnderHeading(rep.report_content, "Tasks", "*No tasks found.*")
        /\ (rep.notes_ids # <<>> /\ AllFailed("notes", rep.notes_content)) =>
             UnderHeading(rep.report_content, "Notes", "### ")
        /\ (rep.tasks_ids # <<>> /\ AllFailed("tasks", rep.tasks_content)) =>
             /\ UnderHeading(rep.report_content, "Tasks", "### ")
             /\ Holds(rep.report_content, "[Error loading task: ")

\* C19 witness: a report without notes whose two tasks both failed.
C19_Witness ==
    /\ rep.phase = "store" /\ response.status = "ok"
    /\ rep.notes_ids = <<>> /\ Len(rep.tasks_ids) = 2
    /\ AllFailed("tasks", rep.tasks_content)
    /\ Holds(rep.report_content, "*No notes found.*")
    /\ ~Holds(rep.report_content, "*No tasks found.*")

\* The text holds the line: the tokens between two line breaks.
HasLine(text, line) ==
    \E i \in 1..Len(text) :
        /\ i = 1 \/ text[i - 1] = NL
        /\ i + Len(line) <= Len(text)
        /\ SubSeq(text, i, i + Len(line) - 1) = line
        /\ text[i + Len(line)] = NL

Starts(text, t) == {j \in 1..Len(text) : text[j] = t /\ (j = 1 \/ text[j - 1] = NL)}

\* The primary page is one heading_1 and one paragraph, there is no note
\* and one task, which was loaded and whose only property is status "Done".
HelloScenario ==
    /\ rep.phase = "store"
    /\ rep.notes_ids = <<>> /\ Len(rep.tasks_ids) = 1
    /\ Len(tree) >= 2
    /\ tree[1].block.type = "heading_1" /\ tree[2].block.type = "paragraph"
    /\ rep.project_content = RefList(<<1, 2>>, FALSE).text
    /\ rep.item_page.id = rep.tasks_ids[1]
    /\ rep.item_page.properties
         = <<Prop("Name", "title", <<rep.tasks_ids[1]>>), Prop("Status", "status", <<"Done">>)>>
    /\ rep.tasks_content[1] # error_section("tasks")

\* C20: for a primary page of one heading_1 and one paragraph, no note and
\* one task whose only property is status "Done", the text of
\* generate_report holds the heading's line with its "# " marker, the
\* paragraph's line, the line of the no-notes placeholder, and exactly one
\* task section, which begins "### <task title> - **Status: Done**".
C20_EndToEnd ==
    HelloScenario =>
        LET text == rep.report_content
        IN  /\ HasLine(text, <<"# ", tree[1].block.key>>)
            /\ HasLine(text, <<tree[2].block.key>>)
            /\ HasLine(text, <<"*No notes found.*">>)
            /\ Cardinality(Starts(text, "### ")) = 1
            /\ HasLine(text, <<"### ", rep.tasks_ids[1], " - ", "**Status: ", "Done", "**">>)
            /\ \A j \in Starts(text, "### ") :
                 /\ SubSeq(text, j - 4, j - 1) = <<"## ", "Tasks", NL, NL>>
                 /\ \E k \in 1..Len(text) :
                      k < j /\ text[k] = "*No notes found.*"

\* C20 witness: the report of that scenario was returned.
C20_Witness ==
    /\ HelloScenario /\ response.status = "ok" /\ pc = "done"
    /\ response.notes_count = 0 /\ response.tasks_count = 1

\* The calls a run issued after the first n of the log.
Issued(n) == SubSeq(log, n + 1, Len(log))

CanonicalNames == <<"Name", "Title", "Page">>
TextOf(p) == Toks(p.value)
HasTitleText(p) == p.type = "title" /\ TextOf(p) # <<>>
Least(S) == CHOOSE j \in S : \A k \in S : j <= k

\* C22 as stated: get_page_title returns the text of the first of "Name",
\* "Title", "Page" that is title-typed with non-empty content; otherwise of
\* the first title-typed property with non-empty content in the record's
\* order; otherwise "Untitled"; a property that is not title-typed or is
\* empty is skipped.
C22_OneTitle ==
    Returned("get_page_title") =>
        LET props == call.arg.properties
            canon == {j \in 1..3 : HasTitleText(GetProp(props, CanonicalNames[j]))}
            any == {j \in 1..Len(props) : HasTitleText(props[j])}
        IN  call.ret = IF canon # {} THEN TextOf(GetProp(props, CanonicalNames[Least(canon)]))
                       ELSE IF any # {} THEN TextOf(props[Least(any)])
                       ELSE <<"Untitled">>

PagesResults == [j \in 1..Len(pager.pages) |-> pager.pages[j].results]

\* The requests follow the cursor: the first carries none, each later one
\* the cursor of the page received before it, and no two are the same.
FollowsCursor ==
    /\ \A j \in 1..Len(log) :
         /\ log[j].op = "children_page" /\ log[j].id = pager.block_id
         /\ log[j].start_cursor = IF j = 1 THEN "" ELSE pager.pages[j - 1].next_cursor
         /\ j > 1 => pager.pages[j - 1].has_more /\ log[j].start_cursor # ""
    /\ \A i, j \in 1..Len(log) : i # j => log[i] # log[j]
    /\ Len(log) \in {Len(pager.pages), Len(pager.pages) + 1}

\* What was gathered is what the pages received held, each once, in order.
GatheredInOrder ==
    /\ pager.all_blocks = Flat(PagesResults)
    /\ pager.st = "returned" =>
         /\ Len(log) = Len(pager.pages) /\ inflight = {}
         /\ ~pager.pages[Len(pager.pages)].has_more
         /\ \A j \in 1..(Len(pager.pages) - 1) : pager.pages[j].has_more
    /\ (pager.st \in {"loop", "await"} /\ pager.pages # <<>>) =>
         pager.pages[Len(pager.pages)].has_more

\* C23: get_block_children follows the cursor until the service reports no
\* more pages and then ends, returning the results of every page once and
\* in page order; after a page with has_more the next request carries that
\* page's cursor, so no page is requested twice; the call always ends.
C23_FollowsCursorToEnd ==
    /\ [](FollowsCursor /\ GatheredInOrder)
    /\ <>(pager.st \in {"returned", "raised"})

\* C23 witness: three pages were received and their blocks returned.
C23_Witness ==
    /\ pager.st = "returned"
    /\ Len(pager.pages) = 3
    /\ pager.pages[1].results # <<>> /\ pager.pages[3].results # <<>>
    /\ Len(pager.all_blocks) >= 3

\* C24 as stated: an image with caption C and URL U renders to the line
\* "![C](U)".
C24_ImageCaptionAndUrl ==
    (Dispatched /\ LastBlock.type = "image") =>
        last.res = Ok(<<"![">> \o extract_rich_text_content(LastBlock.caption)
                      \o <<"](", LastBlock.url, ")", NL>>)

\* The text a path holds: that of the last write to it.
FileAt(path) ==
    LET W == {j \in 1..Len(world.files) : world.files[j].path = path}
    IN  world.files[CHOOSE j \in W : \A k \in W : k <= j].text

PathOf(url) == SubSeq(url, 3, Len(url))

\* The result of a request is made of its own page and its own texts.
AsAlone(r) ==
    r.response.status = "ok" =>
        /\ r.response.project_title = <<r.rep.page_id>>
        /\ r.response.notes_count = Len(r.rep.notes_content)
        /\ r.response.tasks_count = Len(r.rep.tasks_content)
        /\ \E m \in 1..Len(Clock) :
             /\ r.rep.timestamp = Minutes[m]
             /\ r.rep.report_content
                  = report_content(r.rep.project_title, Clock[m], Clock[m],
                                   r.rep.project_content, r.rep.notes_content,
                                   r.rep.tasks_content)
        /\ r.response.url
             = upload_url(blob_path(r.rep.page_id, slugify(r.rep.project_title),
                                    r.rep.timestamp))

\* The file at the URL a request returned holds the text of that request.
OutputKept(r) ==
    r.response.status = "ok" => FileAt(PathOf(r.response.url)) = r.rep.report_content

\* C25 as stated: two requests run interleaved, each suspended at its
\* fetches, return what they return alone, and neither reads or overwrites
\* a buffer, a configuration value or the output location of the other.
C25_NoSharedState ==
    (pc = "done" /\ parked.pc = "done") =>
        /\ AsAlone(Own) /\ AsAlone(parked)
        /\ OutputKept(Own) /\ OutputKept(parked)
        /\ \A i, j \in 1..Len(world.files) :
             i # j => world.files[i].path # world.files[j].path

\* The calls of generate_report itself, without those of the walker.
OwnCalls == SelectSeq(log, LAMBDA r : r.id \notin KeySet)
PageCalls == SelectSeq(OwnCalls, LAMBDA r : r.op = "page")
AllPageCalls ==
    <<PageReq(rep.page_id)>>
    \o [j \in 1..Len(rep.notes_ids) |-> PageReq(rep.notes_ids[j])]
    \o [j \in 1..Len(rep.tasks_ids) |-> PageReq(rep.tasks_ids[j])]
IsPrefix(a, b) == Len(a) <= Len(b) /\ a = SubSeq(b, 1, Len(a))

\* C26: generate_report calls the service in a fixed order: the page of
\* the project, then its blocks, rendered with headings kept, then every
\* note in relation order and after the last note every task in relation
\* order, for each its page before its blocks, rendered with headings
\* flattened; the walker fetches only after the blocks of the page it
\* renders were fetched; and the text is stored, and the URL written, only
\* after the last item was processed.
C26_FixedCallOrder ==
    /\ IsPrefix(PageCalls, AllPageCalls)
    /\ \A j \in 1..Len(OwnCalls) :
         /\ OwnCalls[j].op = "children" =>
              j > 1 /\ OwnCalls[j - 1] = PageReq(OwnCalls[j].id)
         /\ OwnCalls[j].op = "update" =>
              /\ j = Len(OwnCalls) /\ OwnCalls[j].id = rep.page_id
              /\ PageCalls = AllPageCalls
    /\ \A j \in 1..Len(log) :
         log[j].id \in KeySet =>
             \E i \in 1..(j - 1) :
                /\ log[i].op = "children" /\ log[i].id \notin KeySet
                /\ \A k \in (i + 1)..j : log[k].id \in KeySet
    /\ pc = "walk" =>
         /\ walk.flatten = (rep.phase \in {"notes", "tasks"})
         /\ \A d \in 1..Len(stack) : stack[d].flatten = walk.flatten
    /\ rep.phase = "tasks" => Len(rep.notes_content) = Len(rep.notes_ids)
    /\ rep.phase = "store" =>
         /\ Len(rep.notes_content) = Len(rep.notes_ids)
         /\ Len(rep.tasks_content) = Len(rep.tasks_ids)
    /\ world.files # <<>> => rep.phase = "store"

\* C26 witness: a report of one note and one task, both loaded, was
\* returned after all seven calls.
C26_Witness ==
    /\ response.status = "ok"
    /\ OwnCalls = <<PageReq("P"), KidsReq("P"), PageReq("n1"), KidsReq("n1"),
                    PageReq("t1"), KidsReq("t1"), UpdateReq("P")>>
    /\ Len(log) > Len(OwnCalls)

Count(seq, x) == Cardinality({j \in 1..Len(seq) : seq[j] = x})

\* The items of a group that were gone through.
DoneItems(grp) ==
    IF grp = "notes"
    THEN (IF rep.phase = "notes" THEN rep.k - 1
          ELSE IF rep.phase \in {"tasks", "store"} THEN Len(rep.notes_ids) ELSE 0)
    ELSE (IF rep.phase = "tasks" THEN rep.k - 1
          ELSE IF rep.phase = "store" THEN Len(rep.tasks_ids) ELSE 0)

NoRetryOfItems(grp, ids, contents) ==
    \A j \in 1..DoneItems(grp) :
        /\ j <= Len(contents)
        /\ Count(log, PageReq(ids[j])) = 1
        /\ Count(log, KidsReq(ids[j])) = 0 => contents[j] = error_section(grp)

\* C27: no call is made twice in a request.  A block whose children fetch
\* failed was asked for once and is rendered without children text; an
\* item whose page fetch failed was asked for once and its section is the
\* placeholder; when the request of a page of children fails,
\* get_block_children raises and sends no other request.
C27_NoRetry ==
    /\ \A i, j \in 1..Len(log) : i # j => log[i] # log[j]
    /\ \A n \in Nodes :
         tree[n].fetch = "failed" =>
             /\ Count(log, ChildrenReq(tree[n].block)) = 1
             /\ last.n = n => last.cc = <<>>
    /\ NoRetryOfItems("notes", rep.notes_ids, rep.notes_content)
    /\ NoRetryOfItems("tasks", rep.tasks_ids, rep.tasks_content)
    /\ pager.st = "raised" =>
         /\ inflight = {}
         /\ Len(log) = Len(pager.pages) + 1
         /\ log[Len(log)].start_cursor
              = IF Len(log) = 1 THEN "" ELSE pager.pages[Len(log) - 1].next_cursor

\* C27 witness: a report was returned in which the page fetch of the first
\* of two notes failed and so did a children fetch of the second.
C27_Witness ==
    /\ response.status = "ok" /\ Len(rep.notes_ids) = 2
    /\ Count(log, KidsReq("n1")) = 0 /\ Count(log, KidsReq("n2")) = 1
    /\ rep.notes_content[1] = error_section("notes")
    /\ \E n \in Nodes : tree[n].fetch = "failed"

\* A container with an id: toggle, callout, quote, list item or to_do.
Container(block) ==
    /\ block.id # ""
    /\ block.type \in {"toggle", "callout", "quote", "bulleted_list_item",
                        "numbered_list_item", "to_do"}

\* The position of a node in a list, 0 if it is not in it.
PosIn(list, n) ==
    IF \E p \in 1..Len(list) : list[p] = n
    THEN CHOOSE p \in 1..Len(list) : list[p] = n ELSE 0

\* No block before position p of the list raises when it is rendered.
NoneRaisesBefore(list, p) ==
    \A q \in 1..(p - 1) : block_fragment(tree[list[q]].block, FALSE, <<>>).ok

\* The walk comes to node n: it is in the list given to the outermost call
\* or among the children returned for a node the walk came to, and no
\* block before it in its list raises.
RECURSIVE Reached(_)
Reached(n) ==
    \/ PosIn(walk.top, n) # 0 /\ NoneRaisesBefore(walk.top, PosIn(walk.top, n))
    \/ \E m \in 1..(n - 1) :
          /\ PosIn(tree[m].kids, n) # 0
          /\ NoneRaisesBefore(tree[m].kids, PosIn(tree[m].kids, n))
          /\ Reached(m)

FetchesOf(n) == Count(log, ChildrenReq(tree[n].block))

OneFetchPerContainer ==
    /\ \A n \in Nodes :
         /\ FetchesOf(n) <= 1
         /\ FetchesOf(n) = 1 => Container(tree[n].block) /\ Reached(n)
         /\ (tree[n].fetch # "none") = (FetchesOf(n) = 1 /\ ChildrenReq(tree[n].block) \notin inflight)
    /\ Len(log) = Cardinality({n \in Nodes : FetchesOf(n) = 1})
    /\ Len(stack) <= Len(tree) + 1
    /\ pc = "walked" =>
         \A n \in Nodes :
             FetchesOf(n) = IF Container(tree[n].block) /\ Reached(n) THEN 1 ELSE 0

\* C28: on every finite tree, the service answering every fetch with
\* children or a failure, blocks_to_text_with_children ends; it has then
\* fetched the children of every container with an id that the walk came
\* to exactly once and of no other block, and the calls nest as deep as the
\* tree is.
C28_EndsWithOneFetchEach ==
    /\ []OneFetchPerContainer
    /\ <>(pc = "walked")

\* C28 witness: the walk ended on a tree three blocks deep, each block the
\* only child of the one before.
C28_Witness ==
    /\ pc = "walked" /\ out.ok /\ Len(tree) = 3 /\ Len(walk.top) = 1
    /\ tree[1].kids = <<2>> /\ tree[2].kids = <<3>>
    /\ Len(log) >= 2

\* The URL the persistence step returned for the file it wrote.
Persisted == {upload_url(world.files[j].path) : j \in 1..Len(world.files)}
Updates == {j \in 1..Len(log) : log[j].op = "update"}

\* C29: in generate_report the URL property of the project is written at
\* most once per request, only after the report text was persisted, and with
\* exactly the URL the persistence step returned; when persistence fails the
\* property is not written and not asked for; and a success result is
\* returned only after both steps succeeded, with that same URL.
C29_UrlWrittenOnceAfterStore ==
    /\ Len(world.url_prop) <= 1 /\ Len(world.files) <= 1
    /\ Cardinality(Updates) <= 1
    /\ Updates # {} => Len(world.files) = 1
    /\ \A j \in 1..Len(world.url_prop) :
         /\ Len(world.files) = 1
         /\ world.url_prop[j].page = rep.page_id
         /\ world.url_prop[j].prop = "Latest PDF URL"
         /\ world.url_prop[j].url \in Persisted
         /\ world.url_prop[j].url # <<>>
    /\ response.detail = "upload_text_public_flexible" =>
         world.files = <<>> /\ world.url_prop = <<>> /\ Updates = {}
    /\ response.status = "raised" => world.url_prop = <<>>
    /\ response.status = "ok" =>
         /\ Len(world.files) = 1 /\ Len(world.url_prop) = 1
         /\ response.url = world.url_prop[1].url
         /\ world.files[1].text = rep.report_content

\* C29 witness: a report with a note was stored, its URL was written to the
\* project and returned.
C29_Witness ==
    /\ response.status = "ok"
    /\ Len(rep.notes_ids) > 0
    /\ world.url_prop = <<url_property("P", upload_url(world.files[1].path))>>

\* The blocks handed to the walker, and a tree in which no block is a callout
\* or a toggle and no block has children text.
TopBlocks == [j \in 1..Len(walk.top) |-> tree[walk.top[j]].block]
Childless ==
    \A n \in Nodes :
        tree[n].block.type \notin {"callout", "toggle"} /\ tree[n].kids = <<>>

\* C30: for every block of a kind other than callout and toggle and both
\* values of flatten_headings, block_to_text returns what
\* block_to_text_with_children returns whenever the children text is empty
\* (not children-eligible, no children, or a failed fetch); and
\* blocks_to_text returns what blocks_to_text_with_children returns on a
\* list of such blocks.
C30_LegacyAgreesWhenChildless ==
    /\ (Dispatched /\ last.cc = <<>> /\ LastBlock.type \notin {"callout", "toggle"}) =>
          block_to_text(LastBlock, last.flatten) = last.res
    /\ (pc = "walked" /\ Childless) =>
          out = blocks_to_text(TopBlocks, walk.flatten)

\* C30 witness: a flattened heading and a quote whose fetch failed were
\* rendered as a list of two.
C30_Witness ==
    /\ pc = "walked" /\ Childless /\ walk.flatten /\ out.ok
    /\ Len(walk.top) = 2
    /\ \E n \in Nodes : tree[n].block.type \in {"heading_1", "heading_2", "heading_3"}
    /\ \E n \in Nodes : tree[n].block.type = "quote" /\ tree[n].fetch = "failed"

====
